---------------------------- MODULE Spec2Model ----------------------------
(***************************************************************************)
(* Model of the pr-notifier watch engine: the entry point `execute`        *)
(* (src/src/index.ts), its single-PR loop, the multi-PR loop               *)
(* `executeMultiPR`, the MultiPRWatcher coordinator, the RetryHandler      *)
(* executor and the EventDetector diff.                                    *)
(*                                                                         *)
(* The report (`output: string[]`) is only ever appended to and joined at  *)
(* return; the model keeps, in `emitted`, the lines pushed by the last     *)
(* step, each line abstracted to its kind.                                 *)
(***************************************************************************)
EXTENDS Integers, Sequences, FiniteSets, TLC

(***************************************************************************)
(* Bounds of the model.                                                    *)
(***************************************************************************)
\* index.ts:94 sets the single-PR cap to 200; the model scales it down.
maxIterations == 6
\* index.ts:389 sets the multi-PR cap to 200; the model scales it down.
maxIterationsMulti == 3
\* Loop-body entries counted per session (history counter `cycles`).
MaxCycles == 8

(***************************************************************************)
(* Data model (src/unnamed/part_002, the type definitions).                *)
(***************************************************************************)
Null == [null |-> TRUE]
NullConclusion == "null"
NullBody == "null"

PRStates == {"OPEN", "CLOSED", "MERGED"}
Mergeables == {"MERGEABLE", "CONFLICTING", "UNKNOWN"}
ReviewStates == {"APPROVED", "CHANGES_REQUESTED", "COMMENTED", "DISMISSED", "PENDING"}
Conclusions == {"success", "failure", "neutral", "cancelled", "skipped"}
NotifyFilters == {"all", "checks", "reviews", "comments"}
NoUntil == "none"
UntilConditions == {"checks-pass", "approved", "merged", "closed"}

CheckRun(n, st, c) == [name |-> n, status |-> st, conclusion |-> c]
Review(i, a, st) == [id |-> i, author |-> a, state |-> st]
Comment(i, b) == [id |-> i, body |-> b]
PRSnapshot(st, d, m, ch, rv, cm) ==
  [state |-> st, isDraft |-> d, mergeable |-> m,
   checks |-> ch, reviews |-> rv, comments |-> cm, reviewers |-> <<"bob">>]
PREvent(t, msg, sev, ref) ==
  [type |-> t, message |-> msg, severity |-> sev, ref |-> ref]

(***************************************************************************)
(* Snapshots the fetcher delivers in a session (pr-fetcher.ts passes the   *)
(* raw payload through: a comment body may be null).                       *)
(***************************************************************************)
BuildPending == CheckRun("build", "pending", NullConclusion)
BuildSuccess == CheckRun("build", "completed", "success")
Approval == Review("r1", "alice", "APPROVED")
ChangesRequested == Review("r1", "alice", "CHANGES_REQUESTED")

FetchableSnapshots ==
  { PRSnapshot("OPEN", FALSE, "MERGEABLE", <<>>, <<>>, <<>>),
    PRSnapshot("CLOSED", FALSE, "MERGEABLE", <<>>, <<>>, <<>>),
    PRSnapshot("OPEN", FALSE, "MERGEABLE", <<BuildPending>>, <<>>, <<>>),
    PRSnapshot("OPEN", FALSE, "MERGEABLE", <<BuildPending>>, <<ChangesRequested>>, <<>>),
    PRSnapshot("OPEN", FALSE, "MERGEABLE", <<BuildSuccess>>, <<Approval>>, <<>>),
    PRSnapshot("MERGED", FALSE, "MERGEABLE", <<BuildSuccess>>, <<Approval>>, <<>>),
    PRSnapshot("MERGED", FALSE, "MERGEABLE", <<BuildSuccess>>, <<Approval>>,
               <<Comment("c1", NullBody)>>) }

FetchFail == [fetchFailed |-> TRUE]

\* PRAnalyzer.checkHistory of a new analyzer: a map without keys
EmptyHistory == <<>>

(***************************************************************************)
(* Sequence helpers.                                                       *)
(***************************************************************************)
RECURSIVE Concat(_)
Concat(ss) == IF ss = <<>> THEN <<>> ELSE Head(ss) \o Concat(Tail(ss))

Map(f(_), s) == [i \in 1..Len(s) |-> f(s[i])]

Some(P(_), s) == \E i \in 1..Len(s) : P(s[i])
Every(P(_), s) == \A i \in 1..Len(s) : P(s[i])

IsPrefix(s, t) == Len(s) <= Len(t) /\ SubSeq(t, 1, Len(s)) = s

(***************************************************************************)
(* EventDetector (src/unnamed/part_001).                                   *)
(***************************************************************************)
createInitialEvent(snapshot) ==
  PREvent("status", "Monitoring", "info", "")

CheckEventsFor_startedWheneverNew(previous, check) ==
  LET found == {i \in 1..Len(previous) : previous[i].name = check.name}
      hasPrev == found # {}
      prev == previous[CHOOSE i \in found : \A j \in found : i <= j]
  IN IF ~hasPrev
       THEN <<PREvent("check", "Check started", "info", check.name)>>
     ELSE IF hasPrev /\ prev.conclusion # check.conclusion
                     /\ check.conclusion # NullConclusion
       THEN <<PREvent("check", "Check " \o check.conclusion,
                      IF check.conclusion = "success" THEN "success"
                      ELSE IF check.conclusion = "failure" THEN "error"
                      ELSE "warning",
                      check.name)>>
     ELSE <<>>
CheckEventsFor(previous, check) ==
  LET found == {i \in 1..Len(previous) : previous[i].name = check.name}
      hasPrev == found # {}
      prev == previous[CHOOSE i \in found : \A j \in found : i <= j]
  IN IF ~hasPrev /\ check.status = "pending"
       THEN <<PREvent("check", "Check started", "info", check.name)>>
     ELSE IF hasPrev /\ prev.conclusion # check.conclusion
                     /\ check.conclusion # NullConclusion
       THEN <<PREvent("check", "Check " \o check.conclusion,
                      IF check.conclusion = "success" THEN "success"
                      ELSE IF check.conclusion = "failure" THEN "error"
                      ELSE "warning",
                      check.name)>>
     ELSE <<>>

detectCheckChanges(previous, current) ==
  LET one(check) == CheckEventsFor(previous, check)
  IN Concat(Map(one, current))

detectReviewChanges_reportingAll(previous, current) ==
  LET ev(r) == PREvent("review", "Review by " \o r.author,
                       IF r.state = "APPROVED" THEN "success" ELSE "info", r.id)
  IN Map(ev, current)
detectReviewChanges(previous, current) ==
  LET isNew(r) == ~ \E i \in 1..Len(previous) : previous[i].id = r.id
      ev(r) == PREvent("review", "Review by " \o r.author,
                       IF r.state = "APPROVED" THEN "success" ELSE "info", r.id)
  IN Map(ev, SelectSeq(current, isNew))

newComments(previous, current) ==
  LET isNew(c) == ~ \E i \in 1..Len(previous) : previous[i].id = c.id
  IN SelectSeq(current, isNew)

detectCommentChanges(previous, current) ==
  LET ev(c) == PREvent("comment", "Comment", "info", c.id)
  IN Map(ev, newComments(previous, current))

detectStatusChanges_symmetric(previous, current) ==
  (IF previous.isDraft /\ ~current.isDraft
     THEN <<PREvent("status", "ready for review", "success", "")>> ELSE <<>>)
  \o (IF previous.state # "MERGED" /\ current.state = "MERGED"
        THEN <<PREvent("status", "merged", "success", "")>> ELSE <<>>)
  \o (IF previous.state # "CLOSED" /\ current.state = "CLOSED"
        THEN <<PREvent("status", "closed", "warning", "")>> ELSE <<>>)
  \o (IF previous.mergeable # current.mergeable
        THEN <<PREvent("conflict", "conflicts", "warning", "")>> ELSE <<>>)
detectStatusChanges(previous, current) ==
  (IF previous.isDraft /\ ~current.isDraft
     THEN <<PREvent("status", "ready for review", "success", "")>> ELSE <<>>)
  \o (IF previous.state # "MERGED" /\ current.state = "MERGED"
        THEN <<PREvent("status", "merged", "success", "")>> ELSE <<>>)
  \o (IF previous.state # "CLOSED" /\ current.state = "CLOSED"
        THEN <<PREvent("status", "closed", "warning", "")>> ELSE <<>>)
  \o (IF previous.mergeable # "CONFLICTING" /\ current.mergeable = "CONFLICTING"
        THEN <<PREvent("conflict", "conflicts", "warning", "")>> ELSE <<>>)

\* comment.body.substring(0, 100) raises a TypeError on a null body.
detectChangesThrows(previous, current) ==
  /\ previous # Null
  /\ LET nullBody(c) == c.body = NullBody
     IN Some(nullBody, newComments(previous.comments, current.comments))

detectChanges_baselinePlusDiff(previous, current) ==
  IF previous = Null
    THEN <<createInitialEvent(current)>>
         \o detectCheckChanges(<<>>, current.checks)
         \o detectReviewChanges(<<>>, current.reviews)
    ELSE detectCheckChanges(previous.checks, current.checks)
         \o detectReviewChanges(previous.reviews, current.reviews)
         \o detectCommentChanges(previous.comments, current.comments)
         \o detectStatusChanges(previous, current)
detectChanges_statusFirst(previous, current) ==
  IF previous = Null
    THEN <<createInitialEvent(current)>>
    ELSE detectStatusChanges(previous, current)
         \o detectCheckChanges(previous.checks, current.checks)
         \o detectReviewChanges(previous.reviews, current.reviews)
         \o detectCommentChanges(previous.comments, current.comments)
detectChanges(previous, current) ==
  IF previous = Null
    THEN <<createInitialEvent(current)>>
    ELSE detectCheckChanges(previous.checks, current.checks)
         \o detectReviewChanges(previous.reviews, current.reviews)
         \o detectCommentChanges(previous.comments, current.comments)
         \o detectStatusChanges(previous, current)

(***************************************************************************)
(* Stop conditions (src/src/index.ts) and the coordinator's completion     *)
(* test (src/src/multi-pr-watcher.ts).                                     *)
(***************************************************************************)
checkPassed(c) == c.conclusion \in {"success", "skipped", "neutral"}
isApproved(r) == r.state = "APPROVED"

shouldStopWatching_needingChecks(snapshot, condition) ==
  CASE condition = "checks-pass" ->
         snapshot.checks # <<>> /\ Every(checkPassed, snapshot.checks)
    [] condition = "approved" -> Some(isApproved, snapshot.reviews)
    [] condition = "merged" -> snapshot.state = "MERGED"
    [] condition = "closed" -> snapshot.state \in {"CLOSED", "MERGED"}
    [] OTHER -> FALSE
shouldStopWatching_closedOnly(snapshot, condition) ==
  CASE condition = "checks-pass" -> Every(checkPassed, snapshot.checks)
    [] condition = "approved" -> Some(isApproved, snapshot.reviews)
    [] condition = "merged" -> snapshot.state = "MERGED"
    [] condition = "closed" -> snapshot.state = "CLOSED"
    [] OTHER -> FALSE
shouldStopWatching(snapshot, condition) ==
  CASE condition = "checks-pass" -> Every(checkPassed, snapshot.checks)
    [] condition = "approved" -> Some(isApproved, snapshot.reviews)
    [] condition = "merged" -> snapshot.state = "MERGED"
    [] condition = "closed" -> snapshot.state \in {"CLOSED", "MERGED"}
    [] OTHER -> FALSE

shouldAutoStop_withoutApproval(snapshot) ==
  \/ snapshot.state \in {"MERGED", "CLOSED"}
  \/ Every(checkPassed, snapshot.checks)
shouldAutoStop(snapshot) ==
  \/ snapshot.state \in {"MERGED", "CLOSED"}
  \/ Every(checkPassed, snapshot.checks) /\ Some(isApproved, snapshot.reviews)

isComplete(snapshot) ==
  \/ snapshot.state \in {"MERGED", "CLOSED"}
  \/ Every(checkPassed, snapshot.checks) /\ Some(isApproved, snapshot.reviews)

filterEvents_keepingStatus(events, filter) ==
  LET keep(e) == CASE filter = "checks" -> e.type \in {"check", "status"}
                   [] filter = "reviews" -> e.type \in {"review", "status"}
                   [] filter = "comments" -> e.type \in {"comment", "status"}
                   [] OTHER -> TRUE
  IN IF filter = "all" THEN events ELSE SelectSeq(events, keep)
filterEvents(events, filter) ==
  LET keep(e) == CASE filter = "checks" -> e.type = "check"
                   [] filter = "reviews" -> e.type = "review"
                   [] filter = "comments" -> e.type = "comment"
                   [] OTHER -> TRUE
  IN IF filter = "all" THEN events ELSE SelectSeq(events, keep)

(***************************************************************************)
(* RetryHandler (src/src/retry-handler.ts).                                *)
(***************************************************************************)
DefaultRetryOptions_oneRetry ==
  [maxRetries |-> 1, baseDelay |-> 1000, maxDelay |-> 60000, backoffMultiplier |-> 2]
DefaultRetryOptions ==
  [maxRetries |-> 5, baseDelay |-> 1000, maxDelay |-> 60000, backoffMultiplier |-> 2]

Min(a, b) == IF a <= b THEN a ELSE b

RECURSIVE Pow(_, _)
Pow(b, e) == IF e = 0 THEN 1 ELSE b * Pow(b, e - 1)

calculateDelay_uncapped(opts, attemptNo) ==
  opts.baseDelay * Pow(opts.backoffMultiplier, attemptNo)
calculateDelay(opts, attemptNo) ==
  Min(opts.baseDelay * Pow(opts.backoffMultiplier, attemptNo), opts.maxDelay)

\* retry-handler.ts:37 and :33: the counter after a failed / a successful attempt.
onFailure_restartingPerCall(failures, attemptNo) ==
  IF attemptNo = 0 THEN 1 ELSE failures + 1
onFailure(failures, attemptNo) == failures + 1
onSuccess_keepingCount(failures) == failures
onSuccess(failures) == 0

getHealthStatus_lateUnhealthy(failures) ==
  IF failures = 0 THEN "healthy"
  ELSE IF failures <= 3 THEN "degraded"
  ELSE "unhealthy"
getHealthStatus(failures) ==
  IF failures = 0 THEN "healthy"
  ELSE IF failures <= 2 THEN "degraded"
  ELSE "unhealthy"

(***************************************************************************)
(* Report lines, abstracted to their kind.                                 *)
(***************************************************************************)
Line(k, t, r) == [kind |-> k, type |-> t, ref |-> r]
Note(k) == Line(k, "", "")
EventLine(e) == Line("event", e.type, e.message)
PREventLine(pr, e) == Line("event", e.type, e.message)

HasLine(lines, k) == \E i \in 1..Len(lines) : lines[i].kind = k

(***************************************************************************)
(* PRResolver (src/src/pr-resolver.ts).  Numeric identifiers resolve to    *)
(* themselves; a ticket key resolves iff a PR mentions it.                 *)
(***************************************************************************)
Unresolved == 0
resolve(identifier) ==
  CASE identifier = "1" -> 1
    [] identifier = "2" -> 2
    [] identifier = "TAK-1" -> 1
    [] OTHER -> Unresolved

IdentifierLists ==
  { <<"1">>, <<"TAK-9">>, <<"TAK-1", "2">>, <<"1", "TAK-9">>, <<"2", "TAK-8", "TAK-9">> }

resolveMultipleFails_onlyWhenAllFail(identifiers) ==
  \A i \in 1..Len(identifiers) : resolve(identifiers[i]) = Unresolved
resolveMultipleFails(identifiers) ==
  \E i \in 1..Len(identifiers) : resolve(identifiers[i]) = Unresolved

\* The identifier at which the loop of resolveMultiple raises.
firstUnresolved(identifiers) ==
  identifiers[CHOOSE i \in 1..Len(identifiers) :
                /\ resolve(identifiers[i]) = Unresolved
                /\ \A j \in 1..(i - 1) : resolve(identifiers[j]) # Unresolved]

resolveMultiple(identifiers) ==
  [i \in 1..Len(identifiers) |-> resolve(identifiers[i])]

hasJiraKeys(identifiers) ==
  \E i \in 1..Len(identifiers) : identifiers[i] \notin {"1", "2"}

(***************************************************************************)
(* MultiPRWatcher (src/src/multi-pr-watcher.ts).                           *)
(***************************************************************************)
Skipped == [skipped |-> TRUE]
FetchOutcomes == FetchableSnapshots \cup {FetchFail}

initialize(prNumbers) ==
  [n \in {prNumbers[i] : i \in 1..Len(prNumbers)} |->
     [snapshot |-> Null, events |-> <<>>, isComplete |-> FALSE]]

\* The body of the per-entity try block raises: the fetch itself or the diff.
entityRaises(state, outcome) ==
  outcome = FetchFail \/ detectChangesThrows(state.snapshot, outcome)

entityEvents(state, outcome) ==
  IF state.isComplete \/ entityRaises(state, outcome)
    THEN <<>>
    ELSE detectChanges(state.snapshot, outcome)

markComplete_onPassingChecks(state, snapshot) ==
  IF isComplete(snapshot) \/ Every(checkPassed, snapshot.checks)
    THEN TRUE ELSE state.isComplete
markComplete(state, snapshot) ==
  IF isComplete(snapshot) THEN TRUE ELSE state.isComplete

fetchOne_keepingStaleBaseline(state, outcome) ==
  IF state.isComplete THEN state
  ELSE IF entityRaises(state, outcome) THEN state
  ELSE [snapshot |-> IF detectChanges(state.snapshot, outcome) = <<>>
                       THEN state.snapshot ELSE outcome,
        events |-> state.events \o detectChanges(state.snapshot, outcome),
        isComplete |-> markComplete(state, outcome)]
fetchOne_droppingLogOnFailure(state, outcome) ==
  IF state.isComplete THEN state
  ELSE IF entityRaises(state, outcome) THEN [state EXCEPT !.events = <<>>]
  ELSE [snapshot |-> outcome,
        events |-> state.events \o detectChanges(state.snapshot, outcome),
        isComplete |-> markComplete(state, outcome)]
fetchOne_restartingComplete(state, outcome) ==
  IF state.isComplete THEN [snapshot |-> Null, events |-> <<>>, isComplete |-> FALSE]
  ELSE IF entityRaises(state, outcome) THEN state
  ELSE [snapshot |-> outcome,
        events |-> state.events \o detectChanges(state.snapshot, outcome),
        isComplete |-> markComplete(state, outcome)]
fetchOne(state, outcome) ==
  IF state.isComplete THEN state
  ELSE IF entityRaises(state, outcome) THEN state
  ELSE [snapshot |-> outcome,
        events |-> state.events \o detectChanges(state.snapshot, outcome),
        isComplete |-> markComplete(state, outcome)]

\* fetchAll: the new watcher states and the returned mapping (an entity
\* without new events has no key: modelled as the empty list).
fetchAllStates_abortOnFailure(sts, outs) ==
  [n \in DOMAIN sts |->
     IF \E m \in DOMAIN sts : m < n /\ ~sts[m].isComplete /\ outs[m] = FetchFail
       THEN sts[n] ELSE fetchOne(sts[n], outs[n])]
fetchAllStates_clearingFlags(sts, outs) ==
  [n \in DOMAIN sts |->
     IF sts[n].isComplete THEN [sts[n] EXCEPT !.isComplete = FALSE]
     ELSE fetchOne(sts[n], outs[n])]
fetchAllStates(sts, outs) ==
  [n \in DOMAIN sts |-> fetchOne(sts[n], outs[n])]

fetchAllEvents(sts, outs) ==
  [n \in DOMAIN sts |-> entityEvents(sts[n], outs[n])]

\* Every per-entity failure is caught inside fetchAll: its promise never rejects.
fetchAllRejects(sts, outs) == FALSE

areAllComplete_anyComplete(sts) == \E n \in DOMAIN sts : sts[n].isComplete
areAllComplete(sts) == \A n \in DOMAIN sts : sts[n].isComplete

(***************************************************************************)
(* State of one call of the entry point `execute`.                         *)
(***************************************************************************)
VARIABLES
  pc,                  \* "start", "single", "multi" or "done" (returned)
  identifierList,      \* the parsed identifiers
  until,               \* options.until, NoUntil when absent
  notifyOn,            \* options.notifyOn
  prNumberList,        \* resolver output
  previousSnapshot,    \* single-PR loop: previousSnapshot
  currentSnapshot,     \* single-PR loop: the snapshot of the last successful fetch
  filteredEvents,      \* single-PR loop: filteredEvents of the last cycle
  iteration,           \* loop counter of the running loop
  cycles,              \* number of loop-body entries so far
  consecutiveFailures, \* RetryHandler.consecutiveFailures
  attempt,             \* RetryHandler.execute: index of the next attempt
  delays,              \* backoff delays slept in the current execute call
  states,              \* MultiPRWatcher.states
  outcomes,            \* multi-PR: fetch outcome of each entity in the last cycle
  allEvents,           \* multi-PR: mapping returned by the last fetchAll
  lastCycle,           \* how the last step ended
  slept,               \* the last step ended in the inter-cycle sleep
  emitted,             \* report lines pushed by the last step
  options,             \* RetryHandler.options of the executor in use
  detected,            \* events returned by the last detectChanges call
  desktop,             \* options.desktop: desktop notifications are enabled
  delivery,            \* how the notifier's osascript calls of the last step went
  checkHistory,        \* PRAnalyzer.checkHistory: check name -> recorded durations
  checksTimed,         \* the polled PR's check runs carry startedAt
  recorded,            \* history variable: the recordCheckDuration calls so far
  baseline             \* history variable of the coordinator run on its own:
                       \* the first snapshot stored for each entity

vars == <<pc, identifierList, until, notifyOn, prNumberList, previousSnapshot,
          currentSnapshot, filteredEvents, iteration, cycles,
          consecutiveFailures, attempt, delays, states, outcomes, allEvents,
          lastCycle, slept, emitted, options, detected, desktop, delivery,
          checkHistory, checksTimed, recorded, baseline>>

optionVars == <<identifierList, until, notifyOn, options, desktop>>
singleVars == <<previousSnapshot, currentSnapshot, filteredEvents>>
multiVars == <<states, outcomes, allEvents>>
analyzerVars == <<checkHistory, checksTimed, recorded>>

heartbeatInterval == 10
analyzeEvery == 5

Init ==
  /\ pc = "start"
  /\ identifierList \in IdentifierLists
  /\ until \in UntilConditions \cup {NoUntil}
  /\ notifyOn \in NotifyFilters
  /\ prNumberList = <<>>
  /\ previousSnapshot = Null
  /\ currentSnapshot = Null
  /\ filteredEvents = <<>>
  /\ iteration = 0
  /\ cycles = 0
  /\ consecutiveFailures = 0
  /\ attempt = 0
  /\ delays = <<>>
  /\ states = <<>>
  /\ outcomes = <<>>
  /\ allEvents = <<>>
  /\ lastCycle = "none"
  /\ slept = FALSE
  /\ emitted = <<>>
  /\ options = DefaultRetryOptions
  /\ detected = <<>>
  /\ desktop = FALSE
  /\ delivery = "none"
  /\ checkHistory = EmptyHistory
  /\ checksTimed = FALSE
  /\ recorded = <<>>
  /\ baseline = <<>>

(***************************************************************************)
(* execute, lines 41-71: resolution and dispatch.                          *)
(***************************************************************************)
ResolveFails ==
  /\ pc = "start"
  /\ resolveMultipleFails(identifierList)
  /\ pc' = "done"
  /\ emitted' = <<Line("resolve-failed", "", firstUnresolved(identifierList))>>
  /\ lastCycle' = "resolve-error"
  /\ UNCHANGED <<analyzerVars, baseline, optionVars, prNumberList, singleVars, multiVars, iteration,
                 cycles, consecutiveFailures, attempt, delays, slept, detected,
                 delivery>>

StartSingle ==
  /\ pc = "start"
  /\ ~resolveMultipleFails(identifierList)
  /\ Len(resolveMultiple(identifierList)) = 1
  /\ prNumberList' = resolveMultiple(identifierList)
  /\ pc' = "single"
  /\ emitted' = (IF hasJiraKeys(identifierList) THEN <<Note("resolved")>> ELSE <<>>)
                \o <<Note("header")>>
  /\ UNCHANGED <<analyzerVars, baseline, optionVars, singleVars, multiVars, iteration, cycles,
                 consecutiveFailures, attempt, delays, lastCycle, slept, detected,
                 delivery>>

StartMulti ==
  /\ pc = "start"
  /\ ~resolveMultipleFails(identifierList)
  /\ Len(resolveMultiple(identifierList)) > 1
  /\ prNumberList' = resolveMultiple(identifierList)
  /\ states' = initialize(resolveMultiple(identifierList))
  /\ pc' = "multi"
  /\ emitted' = (IF hasJiraKeys(identifierList) THEN <<Note("resolved")>> ELSE <<>>)
                \o <<Note("header")>>
  /\ UNCHANGED <<analyzerVars, baseline, optionVars, singleVars, outcomes, allEvents, iteration, cycles,
                 consecutiveFailures, attempt, delays, lastCycle, slept, detected,
                 delivery>>

(***************************************************************************)
(* PRAnalyzer (src/src/pr-analyzer.ts).  Durations are milliseconds.  The  *)
(* check records of the model carry no timestamps: `elapsed` is            *)
(* now - startedAt of the snapshot's pending checks at the time of the     *)
(* call, NotStarted when the checks carry no startedAt.                    *)
(***************************************************************************)
SLOW_CHECK_THRESHOLD == 600000
VERY_SLOW_THRESHOLD == 1200000
HistoryLimit == 10
MinSamples == 3

NotStarted == -1
ElapsedTimes == {300000, 900000, 1500000}
\* what `elapsed` can be for a PR whose check runs are timed or not
ElapsedChoices(timed) == IF timed THEN ElapsedTimes ELSE {NotStarted}

recordCheckDuration_evictingNewest(history, checkName, duration) ==
  LET created == IF checkName \in DOMAIN history THEN history
                 ELSE (checkName :> <<>>) @@ history
      pushed == Append(created[checkName], duration)
  IN [created EXCEPT ![checkName] =
        IF Len(pushed) > HistoryLimit THEN SubSeq(pushed, 1, HistoryLimit)
                                      ELSE pushed]

recordCheckDuration(history, checkName, duration) ==
  LET created == IF checkName \in DOMAIN history THEN history
                 ELSE (checkName :> <<>>) @@ history
      pushed == Append(created[checkName], duration)
  IN [created EXCEPT ![checkName] =
        IF Len(pushed) > HistoryLimit THEN Tail(pushed) ELSE pushed]

RECURSIVE Sum(_)
Sum(durations) ==
  IF durations = <<>> THEN 0 ELSE Head(durations) + Sum(Tail(durations))

\* duration > avgDuration * 1.5, with avgDuration = Sum / Len
slowerThanUsual(duration, historical) ==
  2 * duration * Len(historical) > 3 * Sum(historical)

checkDurationInsights_withoutHistory(check, history, elapsed) ==
  IF check.status # "pending" \/ elapsed = NotStarted THEN <<>>
  ELSE (IF elapsed > VERY_SLOW_THRESHOLD
          THEN <<Line("insight", "warning", "unusually long")>>
        ELSE IF elapsed > SLOW_CHECK_THRESHOLD
          THEN <<Line("insight", "info", "running long")>>
        ELSE <<>>)
       \o (IF elapsed > SLOW_CHECK_THRESHOLD
             THEN <<Line("insight", "warning", "slower than usual")>> ELSE <<>>)

\* the body of the loop over snapshot.checks
checkDurationInsights(check, history, elapsed) ==
  IF check.status # "pending" \/ elapsed = NotStarted THEN <<>>
  ELSE (IF elapsed > VERY_SLOW_THRESHOLD
          THEN <<Line("insight", "warning", "unusually long")>>
        ELSE IF elapsed > SLOW_CHECK_THRESHOLD
          THEN <<Line("insight", "info", "running long")>>
        ELSE <<>>)
       \o (IF /\ check.name \in DOMAIN history
              /\ Len(history[check.name]) >= MinSamples
              /\ slowerThanUsual(elapsed, history[check.name])
             THEN <<Line("insight", "warning", "slower than usual")>> ELSE <<>>)

analyzeCheckDurations(snapshot, history, elapsed) ==
  Concat([i \in 1..Len(snapshot.checks) |->
            checkDurationInsights(snapshot.checks[i], history, elapsed)])

analyzeReviewStatus(snapshot) ==
  LET approvals == Cardinality({i \in 1..Len(snapshot.reviews) :
                                  snapshot.reviews[i].state = "APPROVED"})
      changesRequested == Cardinality({i \in 1..Len(snapshot.reviews) :
                                  snapshot.reviews[i].state = "CHANGES_REQUESTED"})
      reviewers == Len(snapshot.reviewers)
      allChecksPassed == Every(checkPassed, snapshot.checks)
  IN (IF allChecksPassed /\ reviewers > 0 /\ approvals = 0
        THEN <<Line("insight", "tip", "ready for review")>> ELSE <<>>)
     \o (IF approvals > 0 /\ ~allChecksPassed
           THEN <<Line("insight", "info", "approved, checks running")>> ELSE <<>>)
     \o (IF changesRequested > 0
           THEN <<Line("insight", "info", "changes requested")>> ELSE <<>>)

analyzeMergeReadiness(snapshot) ==
  LET allChecksPassed == Every(checkPassed, snapshot.checks)
      hasApproval == Some(isApproved, snapshot.reviews)
      hasConflicts == snapshot.mergeable = "CONFLICTING"
  IN (IF allChecksPassed /\ hasApproval /\ ~hasConflicts /\ ~snapshot.isDraft
        THEN <<Line("insight", "info", "ready to merge")>> ELSE <<>>)
     \o (IF hasConflicts
           THEN <<Line("insight", "warning", "merge conflicts")>> ELSE <<>>)
     \o (IF snapshot.isDraft /\ allChecksPassed
           THEN <<Line("insight", "tip", "mark ready")>> ELSE <<>>)

analyze(snapshot, history, elapsed) ==
  analyzeCheckDurations(snapshot, history, elapsed)
  \o analyzeReviewStatus(snapshot)
  \o analyzeMergeReadiness(snapshot)

(***************************************************************************)
(* Notifier (src/unnamed/part_003).  With options.desktop the notifier     *)
(* runs osascript, which succeeds or fails; notify, notifySummary and      *)
(* notifyError catch the failure and log it.                               *)
(***************************************************************************)
DeliveryOutcomes(enabled) == IF enabled THEN {"delivered", "failed"} ELSE {"none"}

notifyRaises_propagating(outcome) == outcome = "failed"
notifyRaises(outcome) == FALSE

(***************************************************************************)
(* execute, lines 112-236: the single-PR loop.                             *)
(***************************************************************************)
loopContinues(iter) == iter < maxIterations

stopConditionMet_afterPrevious(snapshot, condition) ==
  condition # NoUntil /\ previousSnapshot # Null
    /\ shouldStopWatching(snapshot, condition)
stopConditionMet(snapshot, condition) ==
  condition # NoUntil /\ shouldStopWatching(snapshot, condition)

autoStops_ignoringEvents(iter, filtered, snapshot) ==
  iter > 0 /\ shouldAutoStop(snapshot)
autoStops(iter, filtered, snapshot) ==
  iter > 0 /\ filtered = <<>> /\ shouldAutoStop(snapshot)

catchStops_neverBreaks(failures) == FALSE
catchStops(failures) == getHealthStatus(failures) = "unhealthy"

failureIsTerminal_oneEarly(opts, attemptNo) == attemptNo + 1 >= opts.maxRetries
failureIsTerminal(opts, attemptNo) == attemptNo = opts.maxRetries

\* Lines 226-234: what follows the loop, however it was left.
loopEpilogue(iter, previous) ==
  IF iter >= maxIterations
    THEN <<Note("blank"), Note("max-duration")>>
         \o (IF previous # Null THEN <<Note("summary")>> ELSE <<>>)
    ELSE <<>>

\* Lines 198-223: the inner catch, entered with the executor's failure count.
catchLines(failures) ==
  <<Note("error")>>
  \o (IF catchStops(failures) THEN <<Note("unhealthy")>> ELSE <<>>)

JiraOutcomes == {"disabled", "no-ticket", "requested"}

jiraLines(condition, jira) ==
  IF condition = "checks-pass" /\ jira # "disabled"
    THEN <<Line("jira", jira, "")>>
    ELSE <<>>

\* One attempt of the wrapped fetch fails (retry-handler.ts:35-49); on the
\* last allowed attempt the terminal error reaches the loop's catch.
SingleFetchFails ==
  /\ pc = "single"
  /\ loopContinues(iteration)
  /\ attempt = 0 => cycles < MaxCycles
  /\ consecutiveFailures' = onFailure(consecutiveFailures, attempt)
  /\ cycles' = IF attempt = 0 THEN cycles + 1 ELSE cycles
  /\ IF failureIsTerminal(options, attempt)
       THEN /\ attempt' = 0
            /\ delays' = (IF attempt = 0 THEN <<>> ELSE delays)
            /\ \E d \in DeliveryOutcomes(desktop) :
                 /\ delivery' = d
                 /\ IF notifyRaises(d)
                      THEN \* notifyError raises inside the catch: the outer
                           \* catch of execute (lines 237-253) returns its report
                           /\ lastCycle' = "crashed"
                           /\ pc' = "done"
                           /\ emitted' = <<Note("crash-report")>>
                      ELSE /\ lastCycle' = "fetch-error"
                           /\ pc' = IF catchStops(onFailure(consecutiveFailures, attempt))
                                      THEN "done" ELSE "single"
                           /\ emitted' =
                                catchLines(onFailure(consecutiveFailures, attempt))
                                \o (IF catchStops(onFailure(consecutiveFailures, attempt))
                                      THEN loopEpilogue(iteration, previousSnapshot)
                                      ELSE <<>>)
       ELSE /\ attempt' = attempt + 1
            /\ delays' = Append(IF attempt = 0 THEN <<>> ELSE delays,
                                calculateDelay(options, attempt))
            /\ lastCycle' = "fetch-retry"
            /\ pc' = "single"
            /\ emitted' = <<>>
            /\ delivery' = "none"
  /\ slept' = FALSE
  /\ UNCHANGED <<analyzerVars, baseline, optionVars, prNumberList, singleVars, multiVars, iteration,
                 detected>>

\* The rest of the loop body after the fetch returned `s` (lines 120-197),
\* as the record of what it leaves behind.
cycleAfterFetch(s, jira, beat, d, elapsed) ==
  LET filtered == IF detectChangesThrows(previousSnapshot, s) THEN <<>>
                  ELSE filterEvents(detectChanges(previousSnapshot, s), notifyOn)
      \* notifier.notify of line 131 raises (a raise of notifySummary would
      \* reach the same catch)
      notifyFails == filtered # <<>> /\ notifyRaises(d)
      insights == IF iteration % analyzeEvery = 0 /\ iteration > 0
                    THEN analyze(s, checkHistory, elapsed) ELSE <<>>
      heartbeat == IF iteration > 0 /\ iteration % heartbeatInterval = 0 /\ beat
                     THEN <<Note("heartbeat")>> ELSE <<>>
      reported == Map(EventLine, filtered) \o insights \o heartbeat
      it == iteration + 1
  IN IF detectChangesThrows(previousSnapshot, s) \/ notifyFails
       THEN [pc |-> IF catchStops(0) THEN "done" ELSE "single",
             emitted |-> catchLines(0)
                         \o (IF catchStops(0)
                               THEN loopEpilogue(iteration, previousSnapshot)
                               ELSE <<>>),
             lastCycle |-> "later-error", slept |-> FALSE,
             iteration |-> iteration, previous |-> previousSnapshot,
             filtered |-> <<>>]
     ELSE IF stopConditionMet(s, until)
       THEN [pc |-> "done",
             emitted |-> reported
                         \o <<Note("blank"), Note("condition-met")>>
                         \o jiraLines(until, jira)
                         \o <<Note("stopping"), Note("summary")>>
                         \o loopEpilogue(iteration, previousSnapshot),
             lastCycle |-> "condition-met", slept |-> FALSE,
             iteration |-> iteration, previous |-> previousSnapshot,
             filtered |-> filtered]
     ELSE IF autoStops(it, filtered, s)
       THEN [pc |-> "done",
             emitted |-> reported
                         \o <<Note("blank"), Note("auto-stop"), Note("summary")>>
                         \o loopEpilogue(it, s),
             lastCycle |-> "auto-stop", slept |-> FALSE,
             iteration |-> it, previous |-> s, filtered |-> filtered]
     ELSE IF loopContinues(it)
       THEN [pc |-> "single", emitted |-> reported,
             lastCycle |-> "ok", slept |-> TRUE,
             iteration |-> it, previous |-> s, filtered |-> filtered]
     ELSE [pc |-> "done", emitted |-> reported \o loopEpilogue(it, s),
           lastCycle |-> "cap", slept |-> FALSE,
           iteration |-> it, previous |-> s, filtered |-> filtered]

\* An attempt of the wrapped fetch succeeds and the cycle runs to its end.
SingleCycle ==
  /\ pc = "single"
  /\ loopContinues(iteration)
  /\ attempt = 0 => cycles < MaxCycles
  /\ \E s \in FetchableSnapshots, jira \in JiraOutcomes, beat \in BOOLEAN,
        d \in DeliveryOutcomes(desktop), elapsed \in ElapsedChoices(checksTimed) :
       /\ jira # "disabled" =>
            (until = "checks-pass" /\ ~detectChangesThrows(previousSnapshot, s)
               /\ stopConditionMet(s, until))
       /\ beat => (iteration > 0 /\ iteration % heartbeatInterval = 0)
       /\ delivery' = d
       /\ \E r \in {cycleAfterFetch(s, jira, beat, d, elapsed)} :
             /\ pc' = r.pc
             /\ emitted' = r.emitted
             /\ lastCycle' = r.lastCycle
             /\ slept' = r.slept
             /\ iteration' = r.iteration
             /\ previousSnapshot' = r.previous
             /\ filteredEvents' = r.filtered
       /\ currentSnapshot' = s
       /\ detected' = (IF detectChangesThrows(previousSnapshot, s) THEN <<>>
                       ELSE detectChanges(previousSnapshot, s))
  /\ consecutiveFailures' = onSuccess(consecutiveFailures)
  /\ attempt' = 0
  /\ delays' = (IF attempt = 0 THEN <<>> ELSE delays)
  /\ cycles' = IF attempt = 0 THEN cycles + 1 ELSE cycles
  /\ UNCHANGED <<analyzerVars, baseline, optionVars, prNumberList, multiVars>>

(***************************************************************************)
(* executeMultiPR, lines 391-457: the multi-PR loop.                       *)
(***************************************************************************)
multiLoopContinues_offByOne(iter) == iter <= maxIterationsMulti
multiLoopContinues(iter) == iter < maxIterationsMulti

multiEpilogue(iter) ==
  IF iter >= maxIterationsMulti
    THEN <<Note("blank"), Note("max-duration"), Note("multi-summary")>>
    ELSE <<>>

multiCatchLines(failures) ==
  <<Note("error")>>
  \o (IF catchStops(failures) THEN <<Note("unhealthy")>> ELSE <<>>)

\* Lines 399-407: the returned mapping is reported entity by entity.
multiReported(events, order, filter) ==
  LET linesOf(n) == LET pl(e) == PREventLine(n, e)
                    IN Map(pl, filterEvents(events[n], filter))
  IN Concat(Map(linesOf, order))

multiAfterFetch_honouringUntil(newStates, events) ==
  LET reported == multiReported(events, prNumberList, notifyOn)
      it == iteration + 1
      met == until # NoUntil
             /\ \E n \in DOMAIN newStates :
                  /\ newStates[n].snapshot # Null
                  /\ shouldStopWatching(newStates[n].snapshot, until)
  IN IF areAllComplete(newStates) \/ met
       THEN [pc |-> "done",
             emitted |-> reported
                         \o <<Note("blank"), Note("all-complete"), Note("multi-summary")>>
                         \o multiEpilogue(iteration),
             lastCycle |-> "all-complete", slept |-> FALSE, iteration |-> iteration]
     ELSE IF multiLoopContinues(it)
       THEN [pc |-> "multi", emitted |-> reported,
             lastCycle |-> "ok", slept |-> TRUE, iteration |-> it]
     ELSE [pc |-> "done", emitted |-> reported \o multiEpilogue(it),
           lastCycle |-> "cap", slept |-> FALSE, iteration |-> it]

multiAfterFetch(newStates, events) ==
  LET reported == multiReported(events, prNumberList, notifyOn)
      it == iteration + 1
  IN IF areAllComplete(newStates)
       THEN [pc |-> "done",
             emitted |-> reported
                         \o <<Note("blank"), Note("all-complete"), Note("multi-summary")>>
                         \o multiEpilogue(iteration),
             lastCycle |-> "all-complete", slept |-> FALSE, iteration |-> iteration]
     ELSE IF multiLoopContinues(it)
       THEN [pc |-> "multi", emitted |-> reported,
             lastCycle |-> "ok", slept |-> TRUE, iteration |-> it]
     ELSE [pc |-> "done", emitted |-> reported \o multiEpilogue(it),
           lastCycle |-> "cap", slept |-> FALSE, iteration |-> it]

\* The outer executor sees the rejection of fetchAll (retry-handler.ts:35-52).
multiAfterReject ==
  IF failureIsTerminal(options, attempt)
    THEN [pc |-> IF catchStops(onFailure(consecutiveFailures, attempt))
                   THEN "done" ELSE "multi",
          emitted |-> multiCatchLines(onFailure(consecutiveFailures, attempt))
                      \o (IF catchStops(onFailure(consecutiveFailures, attempt))
                            THEN multiEpilogue(iteration) ELSE <<>>),
          lastCycle |-> "fetch-error", slept |-> FALSE, iteration |-> iteration]
    ELSE [pc |-> "multi", emitted |-> <<>>, lastCycle |-> "fetch-retry",
          slept |-> FALSE, iteration |-> iteration]

MultiCycle ==
  /\ pc = "multi"
  /\ multiLoopContinues(iteration)
  /\ attempt = 0 => cycles < MaxCycles
  /\ \E o \in [DOMAIN states -> FetchOutcomes \cup {Skipped}] :
       /\ \A n \in DOMAIN states : states[n].isComplete <=> o[n] = Skipped
       /\ outcomes' = o
       /\ delivery' \in DeliveryOutcomes(desktop)
       /\ \E ns \in {fetchAllStates(states, o)}, ev \in {fetchAllEvents(states, o)} :
            /\ states' = ns
            /\ allEvents' = ev
            /\ \E r \in {IF fetchAllRejects(states, o) THEN multiAfterReject
                          ELSE multiAfterFetch(ns, ev)} :
                 /\ pc' = r.pc
                 /\ emitted' = r.emitted
                 /\ lastCycle' = r.lastCycle
                 /\ slept' = r.slept
                 /\ iteration' = r.iteration
       /\ consecutiveFailures' =
            (IF fetchAllRejects(states, o)
               THEN onFailure(consecutiveFailures, attempt)
               ELSE onSuccess(consecutiveFailures))
       /\ attempt' =
            (IF fetchAllRejects(states, o)
                /\ ~failureIsTerminal(options, attempt)
               THEN attempt + 1 ELSE 0)
       /\ delays' =
            (IF fetchAllRejects(states, o)
                /\ ~failureIsTerminal(options, attempt)
               THEN Append(IF attempt = 0 THEN <<>> ELSE delays,
                           calculateDelay(options, attempt))
               ELSE IF attempt = 0 THEN <<>> ELSE delays)
  /\ cycles' = IF attempt = 0 THEN cycles + 1 ELSE cycles
  /\ UNCHANGED <<analyzerVars, baseline, optionVars, prNumberList, singleVars, detected>>

Next ==
  \/ ResolveFails
  \/ StartSingle
  \/ StartMulti
  \/ SingleFetchFails
  \/ SingleCycle
  \/ MultiCycle

Spec == Init /\ [][Next]_vars

(***************************************************************************)
(* The RetryHandler on its own: an executor constructed with some options, *)
(* on which execute is called repeatedly with an operation whose attempts  *)
(* fail or succeed, and reset() between calls.  `cycles` counts the calls. *)
(***************************************************************************)
RetryOptionSets ==
  { [maxRetries |-> r, baseDelay |-> 1000, maxDelay |-> d, backoffMultiplier |-> m] :
      r \in {0, 1, 2}, d \in {1500, 60000}, m \in {2, 3} }
  \cup {DefaultRetryOptions}

RetryInit ==
  /\ pc = "executor"
  /\ options \in RetryOptionSets
  /\ identifierList = <<>>
  /\ until = NoUntil
  /\ notifyOn = "all"
  /\ prNumberList = <<>>
  /\ previousSnapshot = Null
  /\ currentSnapshot = Null
  /\ filteredEvents = <<>>
  /\ iteration = 0
  /\ cycles = 0
  /\ consecutiveFailures = 0
  /\ attempt = 0
  /\ delays = <<>>
  /\ states = <<>>
  /\ outcomes = <<>>
  /\ allEvents = <<>>
  /\ lastCycle = "none"
  /\ slept = FALSE
  /\ emitted = <<>>
  /\ detected = <<>>
  /\ desktop = FALSE
  /\ delivery = "none"
  /\ checkHistory = EmptyHistory
  /\ checksTimed = FALSE
  /\ recorded = <<>>
  /\ baseline = <<>>

executorRest == <<pc, analyzerVars, baseline, optionVars, prNumberList, singleVars, multiVars, iteration,
                  slept, emitted, detected, delivery>>

\* retry-handler.ts:35-52: the attempt raises.
ExecuteAttemptFails ==
  /\ pc = "executor"
  /\ attempt = 0 => cycles < MaxCycles
  /\ cycles' = IF attempt = 0 THEN cycles + 1 ELSE cycles
  /\ consecutiveFailures' = onFailure(consecutiveFailures, attempt)
  /\ IF failureIsTerminal(options, attempt)
       THEN /\ attempt' = 0
            /\ delays' = (IF attempt = 0 THEN <<>> ELSE delays)
            /\ lastCycle' = "terminal-error"
       ELSE /\ attempt' = attempt + 1
            /\ delays' = Append(IF attempt = 0 THEN <<>> ELSE delays,
                                calculateDelay(options, attempt))
            /\ lastCycle' = "retrying"
  /\ UNCHANGED executorRest

\* retry-handler.ts:32-34: the attempt returns a result.
ExecuteAttemptSucceeds ==
  /\ pc = "executor"
  /\ attempt = 0 => cycles < MaxCycles
  /\ cycles' = IF attempt = 0 THEN cycles + 1 ELSE cycles
  /\ consecutiveFailures' = onSuccess(consecutiveFailures)
  /\ attempt' = 0
  /\ delays' = (IF attempt = 0 THEN <<>> ELSE delays)
  /\ lastCycle' = "returned"
  /\ UNCHANGED executorRest

\* retry-handler.ts:82-84, called between two execute calls.
Reset ==
  /\ pc = "executor"
  /\ attempt = 0
  /\ consecutiveFailures' = 0
  /\ lastCycle' = "reset"
  /\ UNCHANGED <<executorRest, cycles, attempt, delays>>

RetryNext ==
  \/ ExecuteAttemptFails
  \/ ExecuteAttemptSucceeds
  \/ Reset

RetrySpec == RetryInit /\ [][RetryNext]_vars

(***************************************************************************)
(* The EventDetector on its own: detectChanges called on a sequence of     *)
(* observations of one PR, the first one without a previous snapshot, each *)
(* later one against the snapshot observed before it.                      *)
(***************************************************************************)
TestPending == CheckRun("test", "pending", NullConclusion)
TestFailure == CheckRun("test", "completed", "failure")
SecondReview == Review("r2", "carol", "CHANGES_REQUESTED")
FirstComment == Comment("c1", "LGTM")
SecondComment == Comment("c2", "one nit")

DiffContents ==
  { <<<<>>, <<>>, <<>>>>,
    <<<<BuildPending>>, <<>>, <<>>>>,
    <<<<BuildPending, TestPending>>, <<>>, <<FirstComment>>>>,
    <<<<BuildSuccess>>, <<Approval>>, <<>>>>,
    <<<<BuildSuccess, TestFailure>>, <<Approval>>, <<FirstComment>>>>,
    <<<<TestFailure, BuildSuccess>>, <<SecondReview, Approval>>,
      <<SecondComment, FirstComment>>>>,
    <<<<BuildSuccess>>, <<Approval, SecondReview>>, <<FirstComment, SecondComment>>>>,
    <<<<BuildSuccess>>, <<Approval>>, <<FirstComment, Comment("c3", NullBody)>>>> }

DiffStatuses ==
  { <<"OPEN", FALSE, "MERGEABLE">>, <<"OPEN", TRUE, "MERGEABLE">>,
    <<"OPEN", FALSE, "CONFLICTING">>, <<"MERGED", FALSE, "MERGEABLE">>,
    <<"CLOSED", FALSE, "UNKNOWN">> }

\* Checks that ended with the other conclusions.
DiffOtherConclusions ==
  { PRSnapshot("OPEN", FALSE, "MERGEABLE",
               <<CheckRun("build", "completed", "cancelled"),
                 CheckRun("test", "completed", "skipped")>>, <<>>, <<>>),
    PRSnapshot("OPEN", FALSE, "MERGEABLE",
               <<CheckRun("build", "completed", "neutral")>>, <<Approval>>, <<>>) }

DiffSnapshots ==
  FetchableSnapshots
  \cup { PRSnapshot(st[1], st[2], st[3], k[1], k[2], k[3]) :
           st \in DiffStatuses, k \in DiffContents }
  \cup DiffOtherConclusions

DetectInit ==
  /\ pc = "detector"
  /\ options = DefaultRetryOptions
  /\ identifierList = <<>>
  /\ until = NoUntil
  /\ notifyOn = "all"
  /\ prNumberList = <<>>
  /\ previousSnapshot = Null
  /\ currentSnapshot = Null
  /\ filteredEvents = <<>>
  /\ iteration = 0
  /\ cycles = 0
  /\ consecutiveFailures = 0
  /\ attempt = 0
  /\ delays = <<>>
  /\ states = <<>>
  /\ outcomes = <<>>
  /\ allEvents = <<>>
  /\ lastCycle = "none"
  /\ slept = FALSE
  /\ emitted = <<>>
  /\ detected = <<>>
  /\ desktop = FALSE
  /\ delivery = "none"
  /\ checkHistory = EmptyHistory
  /\ checksTimed = FALSE
  /\ recorded = <<>>
  /\ baseline = <<>>

detectorRest == <<pc, analyzerVars, baseline, optionVars, prNumberList, filteredEvents, multiVars, iteration,
                  cycles, consecutiveFailures, attempt, delays, slept, emitted,
                  delivery>>

\* detectChanges(last observed snapshot, s) returns its events; s becomes
\* the snapshot to diff against.
Detect ==
  /\ pc = "detector"
  /\ \E s \in DiffSnapshots :
       /\ ~detectChangesThrows(currentSnapshot, s)
       /\ previousSnapshot' = currentSnapshot
       /\ currentSnapshot' = s
       /\ detected' = detectChanges(currentSnapshot, s)
  /\ lastCycle' = "detected"
  /\ UNCHANGED detectorRest

\* detectChanges raises inside detectCommentChanges; nothing is returned
\* and the snapshot to diff against stays.
DetectRaises ==
  /\ pc = "detector"
  /\ \E s \in DiffSnapshots : detectChangesThrows(currentSnapshot, s)
  /\ detected' = <<>>
  /\ lastCycle' = "detect-error"
  /\ UNCHANGED <<detectorRest, previousSnapshot, currentSnapshot>>

DetectNext ==
  \/ Detect
  \/ DetectRaises

DetectSpec == DetectInit /\ [][DetectNext]_vars

(***************************************************************************)
(* Single-PR sessions started with --desktop: every notification of the    *)
(* loop runs osascript, which succeeds or fails.                           *)
(***************************************************************************)
NotifyInit ==
  /\ pc = "start"
  /\ identifierList = <<"1">>
  /\ until \in {NoUntil, "approved", "merged"}
  /\ notifyOn \in {"all", "checks"}
  /\ options = DefaultRetryOptions
  /\ desktop = TRUE
  /\ delivery = "none"
  /\ prNumberList = <<>>
  /\ previousSnapshot = Null
  /\ currentSnapshot = Null
  /\ filteredEvents = <<>>
  /\ iteration = 0
  /\ cycles = 0
  /\ consecutiveFailures = 0
  /\ attempt = 0
  /\ delays = <<>>
  /\ states = <<>>
  /\ outcomes = <<>>
  /\ allEvents = <<>>
  /\ lastCycle = "none"
  /\ slept = FALSE
  /\ emitted = <<>>
  /\ detected = <<>>
  /\ checkHistory = EmptyHistory
  /\ checksTimed = FALSE
  /\ recorded = <<>>
  /\ baseline = <<>>

NotifyNext ==
  \/ StartSingle
  \/ SingleFetchFails
  \/ SingleCycle

NotifySpec == NotifyInit /\ [][NotifyNext]_vars

(***************************************************************************)
(* PRFetcher.parseChecks (src/src/pr-fetcher.ts, lines 59-72) on its own:  *)
(* the statusCheckRollup of each poll is parsed and the resulting snapshot *)
(* is handed to the change detector.  A rollup item is a CheckRun (name,   *)
(* status, conclusion) or a StatusContext (context, state); two workflows  *)
(* may both run a job called "build".                                      *)
(***************************************************************************)
Absent == "undefined"

RawCheckRun(n, st, c) ==
  [typename |-> "CheckRun", name |-> n, context |-> Absent,
   status |-> st, state |-> Absent, conclusion |-> c]
RawStatusContext(ctx, st) ==
  [typename |-> "StatusContext", name |-> Absent, context |-> ctx,
   status |-> Absent, state |-> st, conclusion |-> Absent]

RawItems ==
  { RawCheckRun("build", "IN_PROGRESS", Absent),
    RawCheckRun("build", "COMPLETED", "SUCCESS"),
    RawCheckRun("test", "COMPLETED", "FAILURE"),
    RawStatusContext("build", "PENDING"),
    [typename |-> "Other", name |-> "build", context |-> Absent,
     status |-> "COMPLETED", state |-> Absent, conclusion |-> "SUCCESS"] }

MaxRollup == 2

\* data.statusCheckRollup: null or an array of items
RawRollups ==
  {Null} \cup { [items |-> r] : r \in UNION { [1..n -> RawItems] : n \in 0..MaxRollup } }

\* String.prototype.toLowerCase on the values the rollup carries.
toLowerCase(str) ==
  CASE str = "IN_PROGRESS" -> "in_progress"
    [] str = "COMPLETED" -> "completed"
    [] str = "PENDING" -> "pending"
    [] str = "SUCCESS" -> "success"
    [] str = "FAILURE" -> "failure"
    [] OTHER -> str

\* a || b on strings that are absent or non-empty
OrElse(a, b) == IF a # Absent THEN a ELSE b

parseCheck(check) ==
  CheckRun(OrElse(check.name, check.context),
           LET st == OrElse(check.status, check.state)
           IN IF st = Absent THEN Absent ELSE toLowerCase(st),
           IF check.conclusion = Absent THEN NullConclusion
                                        ELSE toLowerCase(check.conclusion))

parseChecks(rollup) ==
  IF rollup = Null THEN <<>>
  ELSE Map(parseCheck,
           SelectSeq(rollup.items, LAMBDA check :
                       check.typename \in {"CheckRun", "StatusContext"}))

parseResponse(rollup) ==
  PRSnapshot("OPEN", FALSE, "MERGEABLE", parseChecks(rollup), <<>>, <<>>)

FetchInit ==
  /\ pc = "fetcher"
  /\ options = DefaultRetryOptions
  /\ identifierList = <<>>
  /\ until = NoUntil
  /\ notifyOn = "all"
  /\ prNumberList = <<>>
  /\ previousSnapshot = Null
  /\ currentSnapshot = Null
  /\ filteredEvents = <<>>
  /\ iteration = 0
  /\ cycles = 0
  /\ consecutiveFailures = 0
  /\ attempt = 0
  /\ delays = <<>>
  /\ states = <<>>
  /\ outcomes = <<>>
  /\ allEvents = <<>>
  /\ lastCycle = "none"
  /\ slept = FALSE
  /\ emitted = <<>>
  /\ detected = <<>>
  /\ desktop = FALSE
  /\ delivery = "none"
  /\ checkHistory = EmptyHistory
  /\ checksTimed = FALSE
  /\ recorded = <<>>
  /\ baseline = <<>>

\* One poll: fetch parses the rollup, the detector diffs the result
\* against the snapshot of the poll before.
FetchAndDetect ==
  /\ pc = "fetcher"
  /\ \E rollup \in RawRollups :
       /\ previousSnapshot' = currentSnapshot
       /\ currentSnapshot' = parseResponse(rollup)
       /\ detected' = detectChanges(currentSnapshot, parseResponse(rollup))
  /\ lastCycle' = "detected"
  /\ UNCHANGED detectorRest

FetchNext == FetchAndDetect

FetchSpec == FetchInit /\ [][FetchNext]_vars

(***************************************************************************)
(* PRAnalyzer.recordCheckDuration on its own: a sequence of calls on one   *)
(* analyzer.  `recorded` is the history variable of the calls made so far. *)
(* The k-th call records a duration of k minutes, so that every recorded   *)
(* duration is told apart from the others.                                 *)
(***************************************************************************)
CheckNames == {"build", "test"}
MaxRecords == 12

durationOfCall(k) == k * 60000

HistoryInit ==
  /\ pc = "analyzer"
  /\ options = DefaultRetryOptions
  /\ identifierList = <<>>
  /\ until = NoUntil
  /\ notifyOn = "all"
  /\ prNumberList = <<>>
  /\ previousSnapshot = Null
  /\ currentSnapshot = Null
  /\ filteredEvents = <<>>
  /\ iteration = 0
  /\ cycles = 0
  /\ consecutiveFailures = 0
  /\ attempt = 0
  /\ delays = <<>>
  /\ states = <<>>
  /\ outcomes = <<>>
  /\ allEvents = <<>>
  /\ lastCycle = "none"
  /\ slept = FALSE
  /\ emitted = <<>>
  /\ detected = <<>>
  /\ desktop = FALSE
  /\ delivery = "none"
  /\ checkHistory = EmptyHistory
  /\ checksTimed = TRUE
  /\ recorded = <<>>
  /\ baseline = <<>>

analyzerRest == <<pc, optionVars, baseline, prNumberList, previousSnapshot, filteredEvents,
                  multiVars, iteration, consecutiveFailures, attempt, delays,
                  slept, detected, delivery, checksTimed>>

RecordCheckDuration ==
  /\ pc = "analyzer"
  /\ Len(recorded) < MaxRecords
  /\ \E checkName \in CheckNames :
       /\ checkHistory' = recordCheckDuration(checkHistory, checkName,
                                              durationOfCall(Len(recorded) + 1))
       /\ recorded' = Append(recorded, [name |-> checkName,
                                        duration |-> durationOfCall(Len(recorded) + 1)])
  /\ lastCycle' = "recorded"
  /\ UNCHANGED <<analyzerRest, currentSnapshot, emitted, cycles>>

HistoryNext == RecordCheckDuration

HistorySpec == HistoryInit /\ [][HistoryNext]_vars

(***************************************************************************)
(* PRAnalyzer.analyze on its own: an analyzer whose history holds no, two  *)
(* or three samples of "build" is asked about snapshots of every shape the *)
(* insights distinguish.                                                   *)
(***************************************************************************)
HistorySamples ==
  { EmptyHistory,
    recordCheckDuration(recordCheckDuration(EmptyHistory, "build", 60000),
                        "build", 120000),
    recordCheckDuration(
      recordCheckDuration(recordCheckDuration(EmptyHistory, "build", 60000),
                          "build", 120000),
      "build", 180000) }

Commented == Review("r2", "carol", "COMMENTED")

AnalyzedChecks ==
  { <<>>, <<BuildPending>>, <<BuildSuccess>>, <<BuildPending, TestPending>>,
    <<BuildSuccess, TestFailure>> }
AnalyzedReviews == { <<>>, <<ChangesRequested>>, <<Approval>>, <<Commented>> }
\* prData.reviewRequests: the reviewers still asked for a review
ReviewRequests == { <<>>, <<"bob">> }

AnalyzedSnapshots ==
  { [PRSnapshot("OPEN", d, m, ch, rv, <<>>) EXCEPT !.reviewers = rq] :
      d \in BOOLEAN, m \in {"MERGEABLE", "CONFLICTING"}, ch \in AnalyzedChecks,
      rv \in AnalyzedReviews, rq \in ReviewRequests }

AnalyzeInit ==
  /\ pc = "analyzer"
  /\ options = DefaultRetryOptions
  /\ identifierList = <<>>
  /\ until = NoUntil
  /\ notifyOn = "all"
  /\ prNumberList = <<>>
  /\ previousSnapshot = Null
  /\ currentSnapshot = Null
  /\ filteredEvents = <<>>
  /\ iteration = 0
  /\ cycles = 0
  /\ consecutiveFailures = 0
  /\ attempt = 0
  /\ delays = <<>>
  /\ states = <<>>
  /\ outcomes = <<>>
  /\ allEvents = <<>>
  /\ lastCycle = "none"
  /\ slept = FALSE
  /\ emitted = <<>>
  /\ detected = <<>>
  /\ desktop = FALSE
  /\ delivery = "none"
  /\ checkHistory \in HistorySamples
  /\ checksTimed \in BOOLEAN
  /\ recorded = <<>>
  /\ baseline = <<>>

\* One call of analyze; `emitted` holds the insights it returns.
Analyze ==
  /\ pc = "analyzer"
  /\ \E s \in AnalyzedSnapshots, elapsed \in ElapsedChoices(checksTimed) :
       /\ currentSnapshot' = s
       /\ emitted' = analyze(s, checkHistory, elapsed)
  /\ lastCycle' = "analyzed"
  /\ UNCHANGED <<analyzerRest, checkHistory, recorded, cycles>>

AnalyzeNext == Analyze

AnalyzeSpec == AnalyzeInit /\ [][AnalyzeNext]_vars

(***************************************************************************)
(* MultiPRWatcher on its own: fetchAll is called again and again on two    *)
(* entities whose pull requests collect reviews.  The set of review ids of *)
(* a pull request only grows; a review may change its state.  `baseline`   *)
(* records the first snapshot stored for each entity.                      *)
(***************************************************************************)
ThirdReview == Review("r3", "dave", "COMMENTED")

GrowingReviews ==
  { <<>>, <<ChangesRequested>>, <<ChangesRequested, SecondReview>>,
    <<Approval, SecondReview>>, <<Approval, SecondReview, ThirdReview>> }

GrowthSnapshots ==
  { PRSnapshot("OPEN", FALSE, "MERGEABLE", <<BuildPending>>, rv, <<>>) :
      rv \in GrowingReviews }
  \cup { PRSnapshot("MERGED", FALSE, "MERGEABLE", <<BuildPending>>,
                    <<Approval, SecondReview, ThirdReview>>, <<>>) }

reviewIds(snapshot) ==
  IF snapshot = Null THEN {}
  ELSE {snapshot.reviews[i].id : i \in 1..Len(snapshot.reviews)}

CoordinatorInit ==
  /\ pc = "coordinator"
  /\ options = DefaultRetryOptions
  /\ identifierList = <<"1", "2">>
  /\ until = NoUntil
  /\ notifyOn = "all"
  /\ prNumberList = <<1, 2>>
  /\ previousSnapshot = Null
  /\ currentSnapshot = Null
  /\ filteredEvents = <<>>
  /\ iteration = 0
  /\ cycles = 0
  /\ consecutiveFailures = 0
  /\ attempt = 0
  /\ delays = <<>>
  /\ states = initialize(<<1, 2>>)
  /\ outcomes = <<>>
  /\ allEvents = <<>>
  /\ lastCycle = "none"
  /\ slept = FALSE
  /\ emitted = <<>>
  /\ detected = <<>>
  /\ desktop = FALSE
  /\ delivery = "none"
  /\ checkHistory = EmptyHistory
  /\ checksTimed = FALSE
  /\ recorded = <<>>
  /\ baseline = [n \in {1, 2} |-> Null]

\* One call of fetchAll (multi-pr-watcher.ts:38-67).
FetchAll ==
  /\ pc = "coordinator"
  /\ \E o \in [DOMAIN states -> GrowthSnapshots \cup {FetchFail, Skipped}] :
       /\ \A n \in DOMAIN states : states[n].isComplete <=> o[n] = Skipped
       /\ \A n \in DOMAIN states :
            o[n] \in GrowthSnapshots =>
              reviewIds(states[n].snapshot) \subseteq reviewIds(o[n])
       /\ outcomes' = o
       /\ states' = fetchAllStates(states, o)
       /\ allEvents' = fetchAllEvents(states, o)
       /\ baseline' = [n \in DOMAIN states |->
                         IF baseline[n] = Null /\ o[n] \in GrowthSnapshots
                           THEN o[n] ELSE baseline[n]]
  /\ lastCycle' = "fetched"
  /\ UNCHANGED <<analyzerVars, optionVars, pc, prNumberList, singleVars, iteration,
                 cycles, consecutiveFailures, attempt, delays, slept, emitted,
                 detected, delivery>>

CoordinatorNext == FetchAll

CoordinatorSpec == CoordinatorInit /\ [][CoordinatorNext]_vars

(***************************************************************************)
(* Sessions on pull requests whose check runs carry startedAt: every       *)
(* analyze call of the single-PR loop sees an elapsed time for the pending *)
(* checks.                                                                 *)
(***************************************************************************)
TimedInit ==
  /\ pc = "start"
  /\ identifierList \in {<<"1">>, <<"TAK-1", "2">>}
  /\ until \in {NoUntil, "merged"}
  /\ notifyOn = "all"
  /\ options = DefaultRetryOptions
  /\ desktop = FALSE
  /\ delivery = "none"
  /\ prNumberList = <<>>
  /\ previousSnapshot = Null
  /\ currentSnapshot = Null
  /\ filteredEvents = <<>>
  /\ iteration = 0
  /\ cycles = 0
  /\ consecutiveFailures = 0
  /\ attempt = 0
  /\ delays = <<>>
  /\ states = <<>>
  /\ outcomes = <<>>
  /\ allEvents = <<>>
  /\ lastCycle = "none"
  /\ slept = FALSE
  /\ emitted = <<>>
  /\ detected = <<>>
  /\ checkHistory = EmptyHistory
  /\ checksTimed = TRUE
  /\ recorded = <<>>
  /\ baseline = <<>>

TimedNext ==
  \/ StartSingle
  \/ StartMulti
  \/ SingleFetchFails
  \/ SingleCycle
  \/ MultiCycle

TimedSpec == TimedInit /\ [][TimedNext]_vars

TypeOK ==
  /\ pc \in {"start", "single", "multi", "done", "executor", "detector", "fetcher",
            "analyzer", "coordinator"}
  /\ iteration \in 0..maxIterations
  /\ cycles \in 0..MaxCycles
  /\ consecutiveFailures \in Nat
  /\ attempt \in 0..options.maxRetries
  /\ until \in UntilConditions \cup {NoUntil}
  /\ notifyOn \in NotifyFilters

(***************************************************************************)
(* Vocabulary of the properties.                                           *)
(***************************************************************************)
isSingle == Len(prNumberList) = 1
isMulti == Len(prNumberList) > 1

\* A payload that conforms to the data model: comment bodies are text and
\* check names are unique within the snapshot.
IsSnapshot(s) ==
  /\ \A i \in 1..Len(s.comments) : s.comments[i].body # NullBody
  /\ \A i, j \in 1..Len(s.checks) : s.checks[i].name = s.checks[j].name => i = j

\* The last step was a cycle of the single-PR loop whose fetch succeeded and
\* whose body ran to its end without raising.
cycleCompleted == isSingle /\ lastCycle \in {"ok", "condition-met", "auto-stop", "cap"}

\* The last step was a cycle of the single-PR loop that ended in the catch.
cycleErrored == isSingle /\ lastCycle \in {"fetch-error", "later-error"}

eventLines(lines) == SelectSeq(lines, LAMBDA l : l.kind = "event")

IndexOf(lines, k) == CHOOSE i \in 1..Len(lines) : lines[i].kind = k

(***************************************************************************)
(* C1: a single-PR session enters the loop body at most maxIterations      *)
(* times, whatever the cycles' outcomes are (success, terminal fetch       *)
(* failure, or an exception of a later step after a successful fetch).     *)
(***************************************************************************)
C1_SingleLoopBounded == isSingle => cycles <= maxIterations

(***************************************************************************)
(* C2: a multi-PR session enters its loop body at most maxIterationsMulti  *)
(* times and has returned once the cap is reached, also when an entity's   *)
(* fetch fails in every cycle; until then the next cycle can always run.   *)
(***************************************************************************)
C2_MultiTerminates ==
  isMulti =>
    /\ cycles <= maxIterationsMulti
    /\ iteration <= maxIterationsMulti
    /\ (iteration >= maxIterationsMulti \/ cycles >= maxIterationsMulti) => pc = "done"
    /\ pc = "multi" => ENABLED MultiCycle
    /\ pc = "done" => ~ENABLED Next

C2_Witness ==
  /\ isMulti /\ pc = "done" /\ lastCycle = "cap"
  /\ \E n \in DOMAIN states : states[n].snapshot = Null /\ outcomes[n] = FetchFail

(***************************************************************************)
(* C3: with a declared stop condition, a cycle whose fetched snapshot      *)
(* satisfies shouldStop ends the session in that very cycle (the first     *)
(* cycle included): the cycle's filtered events are reported, all of them  *)
(* before the 'Condition met' line, the loop does not sleep and nothing    *)
(* runs afterwards.                                                        *)
(***************************************************************************)
C3_StopsInSameCycle ==
  (cycleCompleted /\ until # NoUntil /\ IsSnapshot(currentSnapshot)
     /\ shouldStopWatching(currentSnapshot, until)) =>
    /\ lastCycle = "condition-met"
    /\ pc = "done"
    /\ ~slept
    /\ ~ENABLED Next
    /\ HasLine(emitted, "condition-met")
    /\ eventLines(emitted) = Map(EventLine, filteredEvents)
    /\ \A i \in 1..Len(emitted) :
         emitted[i].kind = "event" => i < IndexOf(emitted, "condition-met")

C3_Witness ==
  /\ isSingle /\ cycles = 1 /\ lastCycle = "condition-met"
  /\ filteredEvents # <<>>
  /\ shouldStopWatching(currentSnapshot, until)

(***************************************************************************)
(* C4: a single-PR session started with a stop condition never ends        *)
(* through the 'no more activity' auto-stop.                               *)
(***************************************************************************)
C4_NoAutoStopWithCondition ==
  (isSingle /\ until # NoUntil) =>
    (lastCycle # "auto-stop" /\ ~HasLine(emitted, "auto-stop"))

(***************************************************************************)
(* C5 as stated: without a stop condition, a completed cycle whose         *)
(* snapshot is quiescent ends the session, whether or not events were      *)
(* reported in that cycle.                                                 *)
(***************************************************************************)
C5_StopsWhenQuiescent ==
  (cycleCompleted /\ until = NoUntil /\ IsSnapshot(currentSnapshot)
     /\ shouldAutoStop(currentSnapshot)) =>
    (pc = "done" /\ lastCycle = "auto-stop")

(***************************************************************************)
(* C5 amended: without a stop condition, a completed cycle ends the        *)
(* session through the auto-stop exactly when its snapshot is quiescent    *)
(* and no filtered event was reported in that cycle.                       *)
(***************************************************************************)
C5_StopsWhenQuiescentAndSilent ==
  (cycleCompleted /\ until = NoUntil /\ IsSnapshot(currentSnapshot)) =>
    /\ lastCycle = "auto-stop" <=>
         (filteredEvents = <<>> /\ shouldAutoStop(currentSnapshot))
    /\ lastCycle = "auto-stop" =>
         (pc = "done" /\ ~slept /\ HasLine(emitted, "auto-stop") /\ ~ENABLED Next)
    /\ lastCycle = "ok" => (pc = "single" /\ slept)

C5_Witness ==
  /\ isSingle /\ until = NoUntil /\ lastCycle = "auto-stop" /\ pc = "done"
  /\ currentSnapshot.state = "OPEN"

(***************************************************************************)
(* C6: a cycle of the single-PR loop that ends in an error stops the       *)
(* session iff the executor counts 3 or more consecutive failures; the     *)
(* report then carries the unhealthy notice and nothing runs afterwards.   *)
(* An error seen with fewer failures leaves the loop running.              *)
(***************************************************************************)
C6_UnhealthyStops ==
  cycleErrored =>
    /\ HasLine(emitted, "error")
    /\ consecutiveFailures >= 3 =>
         (pc = "done" /\ HasLine(emitted, "unhealthy") /\ ~ENABLED Next)
    /\ consecutiveFailures < 3 =>
         (pc = "single" /\ ~HasLine(emitted, "unhealthy"))

C6_Witness ==
  /\ isSingle /\ lastCycle = "fetch-error" /\ consecutiveFailures >= 3 /\ pc = "done"

C6_WitnessHealthy ==
  /\ isSingle /\ lastCycle = "later-error" /\ consecutiveFailures = 0 /\ pc = "single"

(***************************************************************************)
(* C7: fault isolation.  In a fetchAll cycle over non-complete entities a  *)
(* and b (in either order) where a's fetch raises and b's fetch succeeds,  *)
(* b's stored snapshot becomes the fetched one and b's new events are in   *)
(* the returned mapping and appended to b's log, while a's state is        *)
(* unchanged and areAllComplete() is false.                                *)
(***************************************************************************)
C7_FaultIsolation ==
  [][ (pc = "multi" /\ cycles' = cycles + 1) =>
        \A a, b \in DOMAIN states :
          ( /\ a # b
            /\ ~states[a].isComplete /\ ~states[b].isComplete
            /\ outcomes'[a] = FetchFail
            /\ outcomes'[b] \in FetchableSnapshots
            /\ IsSnapshot(outcomes'[b]) ) =>
            /\ states'[b].snapshot = outcomes'[b]
            /\ allEvents'[b] = detectChanges(states[b].snapshot, outcomes'[b])
            /\ states'[b].events = states[b].events \o allEvents'[b]
            /\ states'[a] = states[a]
            /\ allEvents'[a] = <<>>
            /\ ~areAllComplete(states') ]_vars

C7_Witness ==
  /\ isMulti
  /\ outcomes # <<>>
  /\ outcomes[1] \in FetchableSnapshots /\ outcomes[2] = FetchFail
  /\ states[1].snapshot = outcomes[1] /\ allEvents[1] # <<>>
  /\ states[2].snapshot # Null

C7_WitnessOtherOrder ==
  /\ isMulti
  /\ outcomes # <<>>
  /\ outcomes[2] \in FetchableSnapshots /\ outcomes[1] = FetchFail
  /\ states[2].snapshot = outcomes[2] /\ allEvents[2] # <<>>

(***************************************************************************)
(* C8: when every entity's fetch fails in a cycle of a multi-PR session,   *)
(* the outer executor counts a failed attempt.                             *)
(***************************************************************************)
C8_BatchFailureCounted ==
  (isMulti /\ outcomes # <<>> /\ \A n \in DOMAIN outcomes : outcomes[n] = FetchFail) =>
    consecutiveFailures >= 1

(***************************************************************************)
(* C9: every error of a session surfaces as a line of the report: a step   *)
(* in which resolution, a fetch or the detection failed pushes an error    *)
(* line.                                                                   *)
(***************************************************************************)
C9_ErrorsSurface ==
  /\ lastCycle = "resolve-error" => HasLine(emitted, "resolve-failed")
  /\ cycleErrored => HasLine(emitted, "error")
  /\ (isMulti /\ outcomes # <<>> /\ \E n \in DOMAIN outcomes : outcomes[n] = FetchFail) =>
       HasLine(emitted, "error")

(***************************************************************************)
(* C10: the completion flag is monotonic: no step of a session clears the  *)
(* flag of an entity, whatever the later fetches return.                   *)
(***************************************************************************)
C10_CompletionMonotonic ==
  [][ \A n \in DOMAIN states :
        states[n].isComplete => (n \in DOMAIN states' /\ states'[n].isComplete) ]_vars

C10_Witness ==
  /\ isMulti /\ outcomes # <<>>
  /\ \E n \in DOMAIN states : states[n].isComplete /\ outcomes[n] = Skipped

(***************************************************************************)
(* C11: on every successful fetch of a non-complete entity, fetchAll       *)
(* replaces the stored snapshot by the fetched one (also when the diff     *)
(* yields no event), appends exactly detectChanges(stored, fetched) to the *)
(* entity's log, and marks the entity complete when the fetched snapshot   *)
(* is MERGED or CLOSED or has checks-pass together with an APPROVED        *)
(* review.                                                                 *)
(***************************************************************************)
C11_FetchAllUpdates ==
  [][ (pc = "multi" /\ cycles' = cycles + 1) =>
        \A n \in DOMAIN states :
          ( /\ ~states[n].isComplete
            /\ outcomes'[n] \in FetchableSnapshots
            /\ IsSnapshot(outcomes'[n]) ) =>
            LET f == outcomes'[n]
                passed == \A i \in 1..Len(f.checks) :
                            f.checks[i].conclusion \in {"success", "skipped", "neutral"}
                approved == \E i \in 1..Len(f.reviews) : f.reviews[i].state = "APPROVED"
            IN /\ states'[n].snapshot = f
               /\ states'[n].events =
                    states[n].events \o detectChanges(states[n].snapshot, f)
               /\ (f.state \in {"MERGED", "CLOSED"} \/ (passed /\ approved))
                    => states'[n].isComplete
               /\ states'[n].isComplete
                    => (f.state \in {"MERGED", "CLOSED"} \/ (passed /\ approved)) ]_vars

\* An entity whose log holds the baseline and the start of 'build', and whose
\* stored snapshot is the one just fetched, without checks: the last diff
\* yielded no event and the baseline was replaced all the same.
C11_Witness ==
  /\ isMulti /\ outcomes # <<>>
  /\ \E n \in DOMAIN states :
       /\ outcomes[n] \in FetchableSnapshots
       /\ states[n].snapshot = outcomes[n]
       /\ states[n].snapshot.checks = <<>>
       /\ allEvents[n] = <<>>
       /\ Len(states[n].events) = 2
       /\ states[n].events[2].type = "check"

(***************************************************************************)
(* C12: the event log of an entity is append-only: in every step of a      *)
(* session the log before the step is a prefix of the log after it, also   *)
(* in a step in which that entity's fetch fails.                           *)
(***************************************************************************)
C12_LogAppendOnly ==
  [][ \A n \in DOMAIN states :
        /\ n \in DOMAIN states'
        /\ IsPrefix(states[n].events, states'[n].events) ]_vars

C12_Witness ==
  /\ isMulti /\ outcomes # <<>>
  /\ \E n \in DOMAIN states :
       /\ outcomes[n] = FetchFail
       /\ states[n].events # <<>>

(***************************************************************************)
(* C13: areAllComplete is the conjunction of the entities' completion      *)
(* flags; a multi-PR cycle ends the session with 'All PRs complete'        *)
(* exactly when every flag is true after the cycle's fetchAll, the cycle's *)
(* events being reported before that line; while an entity is incomplete   *)
(* the session does not stop that way.                                     *)
(***************************************************************************)
C13_StopsWhenAllComplete ==
  (isMulti /\ lastCycle \in {"ok", "cap", "all-complete"}) =>
    LET all == \A n \in DOMAIN states : states[n].isComplete
    IN /\ areAllComplete(states) <=> all
       /\ lastCycle = "all-complete" <=> all
       /\ HasLine(emitted, "all-complete") <=> all
       /\ all =>
            /\ pc = "done" /\ ~slept /\ ~ENABLED Next
            /\ eventLines(emitted) = multiReported(allEvents, prNumberList, notifyOn)
            /\ \A i \in 1..Len(emitted) :
                 emitted[i].kind = "event" => i < IndexOf(emitted, "all-complete")
       /\ ~all => (lastCycle = "ok" <=> pc = "multi")

\* The second cycle completes the last entity and reports its events.
C13_Witness ==
  /\ isMulti /\ lastCycle = "all-complete" /\ cycles = 2
  /\ eventLines(emitted) # <<>>
  /\ \E n \in DOMAIN outcomes : outcomes[n] = Skipped

(***************************************************************************)
(* C14: one call of execute invokes the operation at most maxRetries + 1   *)
(* times; the first successful attempt sets the failure counter to 0 and   *)
(* ends the call at once: no further attempt and no sleep beyond those     *)
(* that followed the failed attempts before it.                            *)
(***************************************************************************)
C14_AtMostMaxRetriesPlusOne ==
  [][ pc = "executor" =>
        /\ attempt <= options.maxRetries
        /\ attempt' <= options.maxRetries
        /\ lastCycle' = "returned" =>
             /\ consecutiveFailures' = 0
             /\ attempt' = 0
             /\ Len(delays') = attempt
             /\ attempt > 0 => delays' = delays ]_vars

\* A call that returned at its third attempt.
C14_Witness ==
  /\ pc = "executor" /\ lastCycle = "returned"
  /\ Len(delays) = 2 /\ consecutiveFailures = 0 /\ attempt = 0

(***************************************************************************)
(* C15: a call whose attempts all fail raises the terminal error after     *)
(* exactly maxRetries + 1 attempts, never earlier; when the counter was 0  *)
(* at the start of the call it is maxRetries + 1 afterwards: with          *)
(* maxRetries = 2 the error follows the 3rd attempt, the failure count is  *)
(* 3 and health is unhealthy.                                              *)
(***************************************************************************)
C15_TerminalAfterAllAttempts ==
  pc = "executor" =>
    /\ lastCycle = "terminal-error" =>
         /\ Len(delays) + 1 = options.maxRetries + 1
         /\ attempt = 0
         /\ consecutiveFailures >= options.maxRetries + 1
         /\ cycles = 1 => consecutiveFailures = options.maxRetries + 1
         /\ (cycles = 1 /\ options.maxRetries = 2) =>
              (consecutiveFailures = 3
                 /\ getHealthStatus(consecutiveFailures) = "unhealthy")
    /\ lastCycle = "retrying" =>
         (attempt = Len(delays) /\ attempt <= options.maxRetries)

C15_Witness ==
  /\ pc = "executor" /\ lastCycle = "terminal-error" /\ cycles = 1
  /\ options.maxRetries = 2 /\ consecutiveFailures = 3

(***************************************************************************)
(* C16: after the failed attempt of 0-based index k that is not the last   *)
(* allowed one, execute sleeps exactly                                     *)
(* min(baseDelay * backoffMultiplier^k, maxDelay); it does not sleep after *)
(* the last allowed attempt; no delay exceeds maxDelay; with baseDelay     *)
(* 1000, multiplier 2 and maxRetries 2 an always-failing operation gives   *)
(* the delays [1000, 2000].                                                *)
(***************************************************************************)
C16_BackoffDelays ==
  pc = "executor" =>
    /\ \A i \in 1..Len(delays) :
         LET raw == options.baseDelay * (options.backoffMultiplier ^ (i - 1))
         IN /\ delays[i] = (IF raw <= options.maxDelay THEN raw ELSE options.maxDelay)
            /\ delays[i] <= options.maxDelay
    /\ Len(delays) <= options.maxRetries
    /\ lastCycle = "retrying" => Len(delays) = attempt
    /\ lastCycle = "terminal-error" => Len(delays) = options.maxRetries
    /\ ( /\ lastCycle = "terminal-error"
         /\ options.maxRetries = 2 /\ options.baseDelay = 1000
         /\ options.backoffMultiplier = 2 /\ options.maxDelay >= 2000 )
         => delays = <<1000, 2000>>

C16_Witness ==
  /\ pc = "executor" /\ lastCycle = "terminal-error"
  /\ options.maxRetries = 2 /\ options.backoffMultiplier = 2
  /\ delays = <<1000, 2000>>

\* A delay cut down to maxDelay.
C16_WitnessCapped ==
  /\ pc = "executor" /\ options.maxDelay = 1500 /\ delays = <<1000, 1500>>

(***************************************************************************)
(* C17: the failure counter persists across execute calls on the same      *)
(* executor: every failed attempt adds one to it, the first attempt of a   *)
(* call included, and only a successful attempt or reset() sets it to 0.   *)
(***************************************************************************)
C17_CounterPersists ==
  [][ pc = "executor" =>
        /\ lastCycle' \in {"retrying", "terminal-error"} =>
             consecutiveFailures' = consecutiveFailures + 1
        /\ lastCycle' \in {"returned", "reset"} => consecutiveFailures' = 0
        /\ consecutiveFailures' \in {0, consecutiveFailures + 1} ]_vars

\* More failures than one call can count: they come from several calls.
C17_Witness ==
  /\ pc = "executor" /\ cycles >= 2 /\ attempt > 0
  /\ consecutiveFailures > options.maxRetries + 1

(***************************************************************************)
(* C18: health is a function of the failure counter alone: healthy iff it  *)
(* is 0, degraded iff it is 1 or 2, unhealthy iff it is 3 or more.         *)
(***************************************************************************)
C18_HealthOfCounter ==
  LET health == getHealthStatus(consecutiveFailures)
  IN /\ health \in {"healthy", "degraded", "unhealthy"}
     /\ health = "healthy" <=> consecutiveFailures = 0
     /\ health = "degraded" <=> consecutiveFailures \in {1, 2}
     /\ health = "unhealthy" <=> consecutiveFailures >= 3

C18_Witness ==
  /\ pc = "executor" /\ consecutiveFailures = 3
  /\ getHealthStatus(consecutiveFailures) = "unhealthy"
  /\ getHealthStatus(consecutiveFailures - 1) = "degraded"

(***************************************************************************)
(* C19: baseline uniqueness.  A detectChanges call without a previous      *)
(* snapshot returns exactly one event, of type status and severity info,   *)
(* whatever number of checks, reviews and comments the snapshot holds: the *)
(* first observation of a PR contributes exactly one event.                *)
(***************************************************************************)
C19_BaselineUnique ==
  (pc = "detector" /\ lastCycle = "detected" /\ previousSnapshot = Null) =>
    /\ Len(detected) = 1
    /\ detected[1].type = "status"
    /\ detected[1].severity = "info"

C19_Witness ==
  /\ pc = "detector" /\ lastCycle = "detected" /\ previousSnapshot = Null
  /\ Len(currentSnapshot.checks) = 2 /\ Len(currentSnapshot.reviews) = 2
  /\ Len(currentSnapshot.comments) = 2
  /\ Len(detected) = 1

(***************************************************************************)
(* C20: ordering.  In the list returned by a detectChanges call with a     *)
(* previous snapshot, check events precede review events, which precede    *)
(* comment events, which precede status and conflict events; within the    *)
(* check, review and comment events the order is that of the current       *)
(* snapshot's list.  When 'build' goes from pending to success and review  *)
(* r1 by alice (APPROVED) is new, the result is the check event with       *)
(* severity success followed by the review event with severity success.    *)
(***************************************************************************)
C20_EventOrder ==
  (pc = "detector" /\ lastCycle = "detected" /\ previousSnapshot # Null) =>
    LET rank(e) == CASE e.type = "check" -> 1
                     [] e.type = "review" -> 2
                     [] e.type = "comment" -> 3
                     [] OTHER -> 4
        position(e) ==
          CASE e.type = "check" ->
                 CHOOSE i \in 1..Len(currentSnapshot.checks) :
                   currentSnapshot.checks[i].name = e.ref
            [] e.type = "review" ->
                 CHOOSE i \in 1..Len(currentSnapshot.reviews) :
                   currentSnapshot.reviews[i].id = e.ref
            [] e.type = "comment" ->
                 CHOOSE i \in 1..Len(currentSnapshot.comments) :
                   currentSnapshot.comments[i].id = e.ref
            [] OTHER -> 0
    IN /\ \A i, j \in 1..Len(detected) :
            i < j =>
              /\ rank(detected[i]) <= rank(detected[j])
              /\ (rank(detected[i]) = rank(detected[j]) /\ rank(detected[i]) <= 3)
                   => position(detected[i]) < position(detected[j])
       /\ ( /\ previousSnapshot.checks = <<BuildPending>>
            /\ currentSnapshot.checks = <<BuildSuccess>>
            /\ previousSnapshot.reviews = <<>>
            /\ currentSnapshot.reviews = <<Approval>>
            /\ previousSnapshot.comments = currentSnapshot.comments
            /\ previousSnapshot.state = currentSnapshot.state
            /\ previousSnapshot.isDraft = currentSnapshot.isDraft
            /\ previousSnapshot.mergeable = currentSnapshot.mergeable )
            => /\ Len(detected) = 2
               /\ detected[1].type = "check" /\ detected[1].severity = "success"
               /\ detected[1].ref = "build"
               /\ detected[2].type = "review" /\ detected[2].severity = "success"
               /\ detected[2].ref = "r1"

\* The scenario of the two events.
C20_Witness ==
  /\ pc = "detector" /\ lastCycle = "detected" /\ previousSnapshot # Null
  /\ previousSnapshot.checks = <<BuildPending>>
  /\ currentSnapshot.checks = <<BuildSuccess>>
  /\ currentSnapshot.reviews = <<Approval>>
  /\ Len(detected) = 2

\* A diff with events of all four categories, two of them check events.
C20_WitnessAllCategories ==
  /\ pc = "detector" /\ lastCycle = "detected" /\ previousSnapshot # Null
  /\ \E i, j \in 1..Len(detected) :
       i < j /\ detected[i].type = "check" /\ detected[j].type = "check"
  /\ \E i, j \in 1..Len(detected) :
       i < j /\ detected[i].type = "review" /\ detected[j].type = "review"
  /\ \E i \in 1..Len(detected) : detected[i].type = "comment"
  /\ \E i \in 1..Len(detected) : detected[i].type \in {"status", "conflict"}

(***************************************************************************)
(* C21: idempotence of the diff.  For a snapshot that satisfies the data   *)
(* model's invariants, detectChanges of the snapshot against itself        *)
(* returns no check, review or comment event.                              *)
(***************************************************************************)
C21_DiffIdempotent ==
  ( /\ pc = "detector" /\ lastCycle = "detected"
    /\ previousSnapshot = currentSnapshot
    /\ IsSnapshot(currentSnapshot) ) =>
    \A i \in 1..Len(detected) :
      detected[i].type \notin {"check", "review", "comment"}

C21_Witness ==
  /\ pc = "detector" /\ lastCycle = "detected"
  /\ previousSnapshot = currentSnapshot
  /\ Len(currentSnapshot.checks) = 2 /\ Len(currentSnapshot.reviews) = 2
  /\ Len(currentSnapshot.comments) = 2
  /\ detected = <<>>

(***************************************************************************)
(* C22: check transitions.  For each check of the current snapshot the     *)
(* diff emits a 'started' event (severity info) iff the previous snapshot  *)
(* has no check of that name and the current status is pending, and a      *)
(* 'completed' event iff the previous snapshot has a check of that name    *)
(* whose conclusion differs from the current one and the current           *)
(* conclusion is non-null, with severity success for success, error for    *)
(* failure and warning otherwise; at most one event per current check and  *)
(* none for a check that disappeared.                                      *)
(***************************************************************************)
C22_CheckTransitions ==
  ( /\ pc = "detector" /\ lastCycle = "detected" /\ previousSnapshot # Null
    /\ IsSnapshot(previousSnapshot) /\ IsSnapshot(currentSnapshot) ) =>
    LET prevChecks == previousSnapshot.checks
        curChecks == currentSnapshot.checks
        checkEvents == SelectSeq(detected, LAMBDA e : e.type = "check")
        eventsOf(c) == SelectSeq(checkEvents, LAMBDA e : e.ref = c.name)
        known(c) == \E i \in 1..Len(prevChecks) : prevChecks[i].name = c.name
        before(c) == prevChecks[CHOOSE i \in 1..Len(prevChecks) :
                                  prevChecks[i].name = c.name]
        started(c) == ~known(c) /\ c.status = "pending"
        completed(c) == /\ known(c)
                        /\ before(c).conclusion # c.conclusion
                        /\ c.conclusion # NullConclusion
    IN /\ \A i \in 1..Len(curChecks) :
            LET c == curChecks[i]
            IN /\ Len(eventsOf(c)) <= 1
               /\ started(c) <=>
                    (eventsOf(c) # <<>> /\ eventsOf(c)[1].message = "Check started")
               /\ started(c) => eventsOf(c)[1].severity = "info"
               /\ completed(c) <=>
                    (eventsOf(c) # <<>> /\ eventsOf(c)[1].message # "Check started")
               /\ completed(c) =>
                    /\ eventsOf(c)[1].message = "Check " \o c.conclusion
                    /\ eventsOf(c)[1].severity =
                         (CASE c.conclusion = "success" -> "success"
                            [] c.conclusion = "failure" -> "error"
                            [] OTHER -> "warning")
       /\ \A k \in 1..Len(checkEvents) :
            \E i \in 1..Len(curChecks) : curChecks[i].name = checkEvents[k].ref

\* Both pending checks completed with a conclusion other than success and
\* failure: two events of severity warning.
C22_Witness ==
  /\ pc = "detector" /\ lastCycle = "detected" /\ previousSnapshot # Null
  /\ previousSnapshot.checks = <<BuildPending, TestPending>>
  /\ \E i \in 1..Len(detected) :
       detected[i].type = "check" /\ detected[i].severity = "warning"
  /\ Len(SelectSeq(detected, LAMBDA e : e.type = "check")) = 2

C22_WitnessStarted ==
  /\ pc = "detector" /\ lastCycle = "detected" /\ previousSnapshot # Null
  /\ previousSnapshot.checks = <<BuildPending>>
  /\ currentSnapshot.checks = <<BuildPending, TestPending>>
  /\ \E i \in 1..Len(detected) :
       detected[i].message = "Check started" /\ detected[i].ref = "test"

(***************************************************************************)
(* C23: status transitions are one-directional.  The diff emits 'ready     *)
(* for review' iff isDraft goes from true to false, 'merged' iff the state *)
(* goes from non-MERGED to MERGED, 'closed' iff it goes from non-CLOSED to *)
(* CLOSED and a conflict event iff mergeable goes from non-CONFLICTING to  *)
(* CONFLICTING; the reverse transitions and unchanged fields give no       *)
(* status or conflict event.                                               *)
(***************************************************************************)
C23_StatusOneDirectional ==
  (pc = "detector" /\ lastCycle = "detected" /\ previousSnapshot # Null) =>
    LET statusEvents ==
          SelectSeq(detected, LAMBDA e : e.type \in {"status", "conflict"})
        count(t, m) == Len(SelectSeq(statusEvents,
                                     LAMBDA e : e.type = t /\ e.message = m))
        ready == previousSnapshot.isDraft /\ ~currentSnapshot.isDraft
        merged == previousSnapshot.state # "MERGED" /\ currentSnapshot.state = "MERGED"
        closed == previousSnapshot.state # "CLOSED" /\ currentSnapshot.state = "CLOSED"
        conflict == /\ previousSnapshot.mergeable # "CONFLICTING"
                    /\ currentSnapshot.mergeable = "CONFLICTING"
        n(b) == IF b THEN 1 ELSE 0
    IN /\ count("status", "ready for review") = n(ready)
       /\ count("status", "merged") = n(merged)
       /\ count("status", "closed") = n(closed)
       /\ count("conflict", "conflicts") = n(conflict)
       /\ Len(statusEvents) = n(ready) + n(merged) + n(closed) + n(conflict)

\* A conflict that got resolved while the PR went back to draft: no event.
C23_Witness ==
  /\ pc = "detector" /\ lastCycle = "detected" /\ previousSnapshot # Null
  /\ previousSnapshot.mergeable = "CONFLICTING"
  /\ currentSnapshot.mergeable = "MERGEABLE"
  /\ currentSnapshot.isDraft /\ ~previousSnapshot.isDraft
  /\ \A i \in 1..Len(detected) : detected[i].type \notin {"status", "conflict"}

\* A reopened PR: no event; a merge: exactly the merged event.
C23_WitnessReopened ==
  /\ pc = "detector" /\ lastCycle = "detected" /\ previousSnapshot # Null
  /\ previousSnapshot.state = "CLOSED" /\ currentSnapshot.state = "OPEN"
  /\ \A i \in 1..Len(detected) : detected[i].type # "status"

(***************************************************************************)
(* C24: shouldStop(S, checks-pass) is true iff every check of S has a      *)
(* conclusion in {success, skipped, neutral}, hence true when S has no     *)
(* check: a single-PR session declared with checks-pass stops with         *)
(* 'Condition met' in the cycle that observes an empty check list.         *)
(***************************************************************************)
C24_ChecksPass ==
  currentSnapshot # Null =>
    LET pass == \A i \in 1..Len(currentSnapshot.checks) :
                  currentSnapshot.checks[i].conclusion
                    \in {"success", "skipped", "neutral"}
    IN /\ shouldStopWatching(currentSnapshot, "checks-pass") <=> pass
       /\ currentSnapshot.checks = <<>>
            => shouldStopWatching(currentSnapshot, "checks-pass")
       /\ (cycleCompleted /\ until = "checks-pass") =>
            /\ lastCycle = "condition-met" <=> pass
            /\ currentSnapshot.checks = <<>>
                 => (lastCycle = "condition-met" /\ pc = "done")

\* The second cycle sees the only check gone and stops.
C24_Witness ==
  /\ isSingle /\ until = "checks-pass" /\ cycles = 2
  /\ previousSnapshot # Null /\ previousSnapshot.checks = <<BuildPending>>
  /\ currentSnapshot.checks = <<>>
  /\ lastCycle = "condition-met" /\ pc = "done"

(***************************************************************************)
(* C25: merge implies closed.  shouldStop(S, closed) is true iff the state *)
(* of S is CLOSED or MERGED, so shouldStop(S, merged) implies              *)
(* shouldStop(S, closed), and a single-PR session declared with closed     *)
(* stops with 'Condition met' when the PR is merged.                       *)
(***************************************************************************)
C25_MergeImpliesClosed ==
  currentSnapshot # Null =>
    /\ shouldStopWatching(currentSnapshot, "closed")
         <=> currentSnapshot.state \in {"CLOSED", "MERGED"}
    /\ shouldStopWatching(currentSnapshot, "merged")
         => shouldStopWatching(currentSnapshot, "closed")
    /\ (cycleCompleted /\ until = "closed") =>
         (lastCycle = "condition-met" <=> currentSnapshot.state \in {"CLOSED", "MERGED"})

C25_Witness ==
  /\ isSingle /\ until = "closed" /\ currentSnapshot # Null
  /\ currentSnapshot.state = "MERGED"
  /\ lastCycle = "condition-met" /\ pc = "done"

(***************************************************************************)
(* C26: notify filter.  With filter checks, reviews or comments every      *)
(* event written to the report (and handed to the notifier in the same     *)
(* loop) has type check, review or comment respectively: status and        *)
(* conflict events are reported only under 'all'.  With filter 'all'       *)
(* every detected event is reported, in detection order.                   *)
(***************************************************************************)
C26_NotifyFilter ==
  LET wanted == CASE notifyOn = "checks" -> {"check"}
                  [] notifyOn = "reviews" -> {"review"}
                  [] notifyOn = "comments" -> {"comment"}
                  [] OTHER -> {"check", "review", "comment", "status", "conflict"}
      ofType(events) == SelectSeq(events, LAMBDA e : e.type \in wanted)
      perPR(n) == LET pl(e) == PREventLine(n, e) IN Map(pl, ofType(allEvents[n]))
  IN /\ \A i \in 1..Len(emitted) :
          emitted[i].kind = "event" => emitted[i].type \in wanted
     /\ cycleCompleted =>
          /\ filteredEvents = ofType(detected)
          /\ eventLines(emitted) = Map(EventLine, ofType(detected))
          /\ notifyOn = "all" => eventLines(emitted) = Map(EventLine, detected)
     /\ (isMulti /\ lastCycle \in {"ok", "cap", "all-complete"}) =>
          eventLines(emitted) = Concat(Map(perPR, prNumberList))

\* A diff with a check event and a review event, reported under 'checks'.
C26_Witness ==
  /\ isSingle /\ cycleCompleted /\ notifyOn = "checks"
  /\ Len(detected) = 2 /\ detected[2].type = "review"
  /\ Len(eventLines(emitted)) = 1 /\ eventLines(emitted)[1].type = "check"

(***************************************************************************)
(* C27: batch resolution is all-or-nothing.  When an identifier of the     *)
(* list cannot be resolved, resolveMultiple raises at the first such       *)
(* identifier and no partial list is kept; the entry point returns the     *)
(* failure report and starts no watch: no fetch is made for the            *)
(* identifiers that did resolve.                                           *)
(***************************************************************************)
C27_ResolutionAllOrNothing ==
  (\E i \in 1..Len(identifierList) : resolve(identifierList[i]) = Unresolved) =>
    LET bad == {i \in 1..Len(identifierList) : resolve(identifierList[i]) = Unresolved}
        first == CHOOSE i \in bad : \A j \in bad : i <= j
    IN /\ pc \in {"start", "done"}
       /\ prNumberList = <<>>
       /\ cycles = 0 /\ iteration = 0
       /\ currentSnapshot = Null /\ states = <<>> /\ outcomes = <<>>
       /\ pc = "start" =>
            (ENABLED ResolveFails /\ ~ENABLED StartSingle /\ ~ENABLED StartMulti)
       /\ pc = "done" =>
            /\ lastCycle = "resolve-error"
            /\ emitted = <<Line("resolve-failed", "", identifierList[first])>>
            /\ ~ENABLED Next

\* The first identifier resolved, the second is the one reported.
C27_Witness ==
  /\ pc = "done" /\ lastCycle = "resolve-error"
  /\ identifierList = <<"2", "TAK-8", "TAK-9">>
  /\ emitted[1].ref = "TAK-8"
  /\ prNumberList = <<>> /\ cycles = 0

(***************************************************************************)
(* C28: notification delivery is best-effort.  When the delivery of        *)
(* notify, notifySummary or notifyError fails, the failure is swallowed:   *)
(* what the cycle leaves behind (iteration counter, previous snapshot,     *)
(* retry counter, report lines, whether the loop stops or sleeps) is what  *)
(* it leaves behind when delivery succeeds, and the error never leaves the *)
(* loop.                                                                   *)
(***************************************************************************)
C28_DeliveryBestEffort ==
  /\ lastCycle # "crashed"
  /\ (delivery = "failed" /\ lastCycle = "later-error") =>
       detectChangesThrows(previousSnapshot, currentSnapshot)
  /\ (delivery = "failed" /\ lastCycle \in {"ok", "condition-met", "auto-stop", "cap"}) =>
       (consecutiveFailures = 0 /\ attempt = 0)
  /\ (pc = "single" /\ loopContinues(iteration)) =>
       \A s \in FetchableSnapshots, jira \in JiraOutcomes,
          elapsed \in ElapsedChoices(checksTimed) :
         cycleAfterFetch(s, jira, FALSE, "failed", elapsed)
           = cycleAfterFetch(s, jira, FALSE, "delivered", elapsed)

\* Events were reported while delivery failed, and the loop went on to sleep.
C28_Witness ==
  /\ isSingle /\ desktop /\ delivery = "failed"
  /\ lastCycle = "ok" /\ pc = "single" /\ slept
  /\ filteredEvents # <<>> /\ iteration = 2

\* notifyError failed to deliver in the catch of a terminal fetch error.
C28_WitnessError ==
  /\ isSingle /\ desktop /\ delivery = "failed"
  /\ lastCycle = "fetch-error" /\ HasLine(emitted, "unhealthy")

(***************************************************************************)
(* C29 as stated: a snapshot with zero checks and zero reviews never       *)
(* satisfies the quiescence heuristic (shouldAutoStop, the coordinator's   *)
(* completion test), so a cycle that observes it in a session without a    *)
(* stop condition does not end the session unless the cap is reached.      *)
(***************************************************************************)
C29_EmptyNeverQuiescent ==
  /\ (currentSnapshot # Null /\ currentSnapshot.checks = <<>>
        /\ currentSnapshot.reviews = <<>>) =>
       /\ ~shouldAutoStop(currentSnapshot)
       /\ (cycleCompleted /\ until = NoUntil) => lastCycle \in {"ok", "cap"}
  /\ \A n \in DOMAIN states :
       (states[n].snapshot # Null /\ states[n].snapshot.checks = <<>>
          /\ states[n].snapshot.reviews = <<>>) =>
         (~isComplete(states[n].snapshot) /\ ~states[n].isComplete)

(***************************************************************************)
(* C29 amended: an OPEN snapshot with zero checks and zero reviews never   *)
(* satisfies the quiescence heuristic: a cycle that observes it in a       *)
(* single-PR session without a stop condition ends the session only by     *)
(* reaching the iteration cap, and an entity of a multi-PR session that    *)
(* holds it is not complete, so the session does not end with 'All PRs     *)
(* complete'.                                                              *)
(***************************************************************************)
C29_OpenEmptyNeverQuiescent ==
  /\ (currentSnapshot # Null /\ currentSnapshot.state = "OPEN"
        /\ currentSnapshot.checks = <<>> /\ currentSnapshot.reviews = <<>>) =>
       /\ ~shouldAutoStop(currentSnapshot)
       /\ (cycleCompleted /\ until = NoUntil) =>
            /\ lastCycle \in {"ok", "cap"}
            /\ pc = "done" <=> iteration = maxIterations
            /\ ~HasLine(emitted, "auto-stop")
  /\ \A n \in DOMAIN states :
       (states[n].snapshot # Null /\ states[n].snapshot.state = "OPEN"
          /\ states[n].snapshot.checks = <<>>
          /\ states[n].snapshot.reviews = <<>>) =>
         /\ ~isComplete(states[n].snapshot)
         /\ ~states[n].isComplete
         /\ lastCycle # "all-complete"
         /\ pc = "done" => lastCycle = "cap"

\* A session on a PR without checks and reviews that ran into the cap.
C29_Witness ==
  /\ isSingle /\ until = NoUntil /\ pc = "done" /\ lastCycle = "cap"
  /\ currentSnapshot.state = "OPEN"
  /\ currentSnapshot.checks = <<>> /\ currentSnapshot.reviews = <<>>
  /\ previousSnapshot = currentSnapshot
  /\ iteration = maxIterations

(***************************************************************************)
(* C30: on the first poll of a single-PR session started with notify       *)
(* filter 'checks', the initial 'Monitoring PR' summary (the status event  *)
(* of the first observation) is written to the report.                     *)
(***************************************************************************)
C30_InitialSummaryReported ==
  (isSingle /\ cycles = 1 /\ cycleCompleted /\ notifyOn = "checks") =>
    \E i \in 1..Len(emitted) :
      emitted[i].kind = "event" /\ emitted[i].type = "status"

(***************************************************************************)
(* C31: every snapshot that reaches the change detector has pairwise       *)
(* distinct check names, whatever the raw check rollup contains.           *)
(* parseChecks maps the rollup item by item and removes no duplicate, so   *)
(* the statement fails for a rollup with two items of the same name.       *)
(***************************************************************************)
C31_CheckNamesUnique ==
  (pc = "fetcher" /\ currentSnapshot # Null) =>
    \A i, j \in 1..Len(currentSnapshot.checks) :
      currentSnapshot.checks[i].name = currentSnapshot.checks[j].name => i = j

(***************************************************************************)
(* C32: after any sequence of recordCheckDuration calls, the history of    *)
(* each check name holds at most 10 entries and equals the most recent (up *)
(* to 10) durations recorded for that name, in recording order; a name     *)
(* never recorded has no history, so a call leaves the other names alone.  *)
(***************************************************************************)
C32_HistoryIsLastTen ==
  pc = "analyzer" =>
    \A checkName \in CheckNames :
      LET calls == SelectSeq(recorded, LAMBDA c : c.name = checkName)
          all == [i \in 1..Len(calls) |-> calls[i].duration]
          kept == IF Len(all) > 10 THEN 10 ELSE Len(all)
      IN IF all = <<>>
           THEN checkName \notin DOMAIN checkHistory
           ELSE /\ checkName \in DOMAIN checkHistory
                /\ Len(checkHistory[checkName]) <= 10
                /\ checkHistory[checkName] = SubSeq(all, Len(all) - kept + 1, Len(all))

\* Eleven durations were recorded for build and one for test: the oldest
\* build duration is evicted, the test history holds its single duration.
C32_Witness ==
  /\ pc = "analyzer"
  /\ Len(SelectSeq(recorded, LAMBDA c : c.name = "build")) = 11
  /\ Len(SelectSeq(recorded, LAMBDA c : c.name = "test")) = 1
  /\ recorded[1].name = "build"
  /\ Len(checkHistory["build"]) = 10
  /\ \A i \in 1..10 : checkHistory["build"][i] # recorded[1].duration
  /\ Len(checkHistory["test"]) = 1

(***************************************************************************)
(* C33: analyze emits the review-status tip exactly when all checks of the *)
(* snapshot passed and the snapshot has no review yet.  The code tests     *)
(* for no APPROVED review and at least one requested reviewer instead, so  *)
(* the statement fails in both directions.                                 *)
(***************************************************************************)
C33_TipIffPassedAndUnreviewed ==
  (pc = "analyzer" /\ lastCycle = "analyzed") =>
    ((\E i \in 1..Len(emitted) :
        emitted[i] = Line("insight", "tip", "ready for review"))
     <=> (/\ \A i \in 1..Len(currentSnapshot.checks) :
               currentSnapshot.checks[i].conclusion \in {"success", "skipped", "neutral"}
          /\ currentSnapshot.reviews = <<>>))

(***************************************************************************)
(* C34: the report of a single-PR session names at most one termination    *)
(* reason among 'Condition met', 'No more activity', 'Connection           *)
(* unhealthy' and 'Max monitoring duration reached', and the summary is    *)
(* appended at most once.  The auto-stop of lines 179-192 runs after       *)
(* iteration++, so an auto-stop in the cycle that reaches the cap is       *)
(* followed by the epilogue of lines 226-234.                              *)
(***************************************************************************)
C34_OneTerminationReason ==
  isSingle =>
    /\ Cardinality({k \in {"condition-met", "auto-stop", "unhealthy", "max-duration"} :
                      HasLine(emitted, k)}) <= 1
    /\ Cardinality({i \in 1..Len(emitted) : emitted[i].kind = "summary"}) <= 1

(***************************************************************************)
(* C35: with the default executor configuration (maxRetries = 5), when     *)
(* execute raises its terminal error in the single-PR loop the failure     *)
(* counter is at least 6, so the session ends in that cycle; a session     *)
(* that is about to start a cycle has a failure counter of 0.              *)
(***************************************************************************)
C35_FetchErrorEndsSession ==
  isSingle =>
    /\ lastCycle = "fetch-error" =>
         /\ consecutiveFailures >= 6
         /\ HasLine(emitted, "unhealthy")
         /\ pc = "done"
         /\ ~ENABLED Next
    /\ (pc = "single" /\ attempt = 0) => consecutiveFailures = 0

\* After two completed cycles the fetch of the third fails six times.
C35_Witness ==
  /\ isSingle /\ lastCycle = "fetch-error" /\ pc = "done"
  /\ cycles = 3 /\ iteration = 2 /\ consecutiveFailures = 6
  /\ Len(delays) = 5

(***************************************************************************)
(* C36: once an entity is complete it is frozen: fetchAll does not fetch   *)
(* it, its stored snapshot, event log and flag stay as they are and the    *)
(* returned mapping holds no event for it.                                 *)
(***************************************************************************)
C36_CompleteIsFrozen ==
  [][ (pc = "multi" /\ isMulti) =>
        \A n \in DOMAIN states :
          states[n].isComplete =>
            /\ states'[n] = states[n]
            /\ outcomes'[n] = Skipped
            /\ allEvents'[n] = <<>> ]_vars

\* An approved open PR with passing checks was completed in the first
\* cycle and skipped in the cycle after it.
C36_Witness ==
  /\ isMulti /\ cycles = 2 /\ lastCycle = "ok"
  /\ \E n \in DOMAIN states :
       /\ states[n].isComplete
       /\ states[n].snapshot.state = "OPEN"
       /\ Len(states[n].events) = 1
       /\ outcomes[n] = Skipped

C37_WitnessIncomplete ==
  /\ isMulti
  /\ \E b \in DOMAIN states :
       ~states[b].isComplete /\ states[b].snapshot # Null /\ Len(states[b].events) >= 2

(***************************************************************************)
(* C38: in a multi-PR session a declared stop condition has no effect:     *)
(* after every cycle the session has stopped iff all entities are          *)
(* complete, the iteration cap is reached or the executor is unhealthy,    *)
(* whether or not a stored snapshot satisfies the declared condition, and  *)
(* no 'Condition met' line is reported.                                    *)
(***************************************************************************)
C38_UntilIgnoredInMulti ==
  (isMulti /\ states # <<>> /\ lastCycle \in {"ok", "all-complete", "cap", "fetch-error"}) =>
    /\ pc = "done" <=>
         \/ \A n \in DOMAIN states : states[n].isComplete
         \/ iteration >= maxIterationsMulti
         \/ (lastCycle = "fetch-error" /\ consecutiveFailures >= 3)
    /\ ~HasLine(emitted, "condition-met")
    /\ lastCycle # "condition-met"

\* The declared condition is 'approved' and the stored snapshot of an entity
\* has an APPROVED review, yet the session goes on polling the others.
C38_Witness ==
  /\ isMulti /\ until = "approved" /\ pc = "multi" /\ lastCycle = "ok"
  /\ \E n \in DOMAIN states :
       /\ states[n].snapshot # Null
       /\ \E i \in 1..Len(states[n].snapshot.reviews) :
            states[n].snapshot.reviews[i].state = "APPROVED"

\* The declared condition is 'merged' and no entity is merged, yet the
\* session stops because every entity is complete.
C38_WitnessStopsUnmet ==
  /\ isMulti /\ until = "merged" /\ pc = "done" /\ lastCycle = "all-complete"
  /\ \A n \in DOMAIN states : states[n].snapshot.state = "OPEN"

(***************************************************************************)
(* C39: exactly-once review reporting by the coordinator.  While the set   *)
(* of review ids of an entity only grows, every review id that is absent   *)
(* from the entity's baseline snapshot and present in the snapshot stored  *)
(* by a successful fetch has exactly one review event in the entity's log, *)
(* and the ids of the baseline have none; failed fetches in between        *)
(* change nothing.                                                         *)
(***************************************************************************)
C39_ReviewsReportedOnce ==
  pc = "coordinator" =>
    \A n \in DOMAIN states :
      \A id \in {"r1", "r2", "r3"} :
        LET reported == Cardinality({i \in 1..Len(states[n].events) :
                                       /\ states[n].events[i].type = "review"
                                       /\ states[n].events[i].ref = id})
        IN IF id \in reviewIds(states[n].snapshot) \ reviewIds(baseline[n])
             THEN reported = 1
             ELSE reported = 0

\* The baseline of an entity held r1 only; r2 was reported, and the fetch
\* of the last cycle failed.
C39_Witness ==
  /\ pc = "coordinator"
  /\ \E n \in DOMAIN states :
       /\ reviewIds(baseline[n]) = {"r1"}
       /\ reviewIds(states[n].snapshot) = {"r1", "r2"}
       /\ outcomes[n] = FetchFail
       /\ Len(states[n].events) = 2

\* The baseline of an entity held no review; r1, r2 and r3 were reported in
\* three later cycles, and the last one completed the entity.
C39_WitnessAll ==
  /\ pc = "coordinator"
  /\ \E n \in DOMAIN states :
       /\ baseline[n] # Null /\ reviewIds(baseline[n]) = {}
       /\ reviewIds(states[n].snapshot) = {"r1", "r2", "r3"}
       /\ states[n].isComplete
       /\ Len(states[n].events) = 5

(***************************************************************************)
(* C40: during a watch session the analyzer's duration history stays       *)
(* empty, since neither loop records a duration, and no report holds the   *)
(* 'slower than usual' warning, whatever the elapsed time of the pending   *)
(* checks is when analyze runs.                                            *)
(***************************************************************************)
C40_HistoryStaysEmpty ==
  pc \in {"start", "single", "multi", "done"} =>
    /\ DOMAIN checkHistory = {}
    /\ \A i \in 1..Len(emitted) : emitted[i].ref # "slower than usual"

\* The fifth cycle's analyze call found the pending build running for 25
\* minutes: the threshold warning is reported, the historical one is not.
C40_Witness ==
  /\ isSingle /\ checksTimed /\ iteration = 6 /\ lastCycle = "cap"
  /\ currentSnapshot.checks = <<BuildPending>>
  /\ \E i \in 1..Len(emitted) :
       emitted[i] = Line("insight", "warning", "unusually long")

=============================================================================
